---- MODULE Spec2Model ----
(***************************************************************************)
(* BenBox (DrBenjamin/BenBox): the Streamlit MCP client app (src/app.py)   *)
(* and the MCP server tools (src/src/server/*.py).                         *)
(*                                                                         *)
(* Strings whose characters matter (answers, questions, turns) are         *)
(* sequences of one-character strings; names and messages that are only    *)
(* compared for equality are TLA+ strings.                                 *)
(***************************************************************************)
EXTENDS Integers, Sequences, FiniteSets, TLC

VARIABLES
    \* st.session_state of one user session (src/app.py)
    vector,                \* TRUE iff "vector" in st.session_state
    option_table,          \* st.session_state.option_table
    messages,              \* st.session_state.langchain_messages
    answer,                \* st.session_state.answer
    response,              \* st.session_state.response
    option_embedding_model,\* st.session_state.option_embedding_model
    \* widget state kept by the UI between script runs
    selected_table,        \* selectbox key="selected_table"
    multi_table_selection, \* multiselect key="multi_table_selection"
    new_disp,              \* text_input "Tabellenname"
    embedding_model,       \* selectbox key="embedding_model"
    uploaded_chat,         \* file_uploader key="chat_json_import"
    \* the remote warehouse
    tables,                \* display names of the LANGCHAIN_ tables that exist
    \* the script runner
    phase,                 \* "idle": waiting for the user; "rerun": a script run is due
    rendered,              \* the widgets the last script run rendered
    run,                   \* what the last script run did (calls, notices, fault)
    \* harness for the pure functions and the single-call adapters
    probe,                 \* the input drawn for the function under check
    ret,                   \* what the function returned for it
    \* one tool-client session, step by step
    script,                \* the script thread: where it is and what it waits for
    loop                   \* the background loop _mcp_loop and its requests

appvars == <<vector, option_table, messages, answer, response, option_embedding_model,
             selected_table, multi_table_selection, new_disp, embedding_model,
             uploaded_chat,
             tables, phase, rendered, run>>
vars == <<vector, option_table, messages, answer, response, option_embedding_model,
          selected_table, multi_table_selection, new_disp, embedding_model,
             uploaded_chat,
          tables, phase, rendered, run, probe, ret, script, loop>>

(***************************************************************************)
(* Python str operations, on sequences of characters                       *)
(***************************************************************************)
NL == "\n"
Whitespace == {" ", NL, "\t"}

\* s[i:].startswith(old)
StartsWithAt(s, old, i) ==
    /\ i + Len(old) - 1 <= Len(s)
    /\ \A j \in 1..Len(old) : s[i + j - 1] = old[j]

RECURSIVE ReplaceFrom(_, _, _, _)
ReplaceFrom(s, old, new, i) ==
    IF i > Len(s) THEN <<>>
    ELSE IF StartsWithAt(s, old, i)
         THEN new \o ReplaceFrom(s, old, new, i + Len(old))
         ELSE <<s[i]>> \o ReplaceFrom(s, old, new, i + 1)

\* str.replace(old, new) for a non-empty old: every non-overlapping
\* occurrence, found left to right
Replace(s, old, new) == ReplaceFrom(s, old, new, 1)

RECURSIVE LStrip(_)
\* str.lstrip(): leading whitespace removed
LStrip(s) ==
    IF s # <<>> /\ s[1] \in Whitespace THEN LStrip(Tail(s)) ELSE s

\* the literal "Assistant: " of app.py line 779
AssistantPrefix == <<"A", "s", "s", "i", "s", "t", "a", "n", "t", ":", " ">>

\* answer.replace("Assistant: ", "").replace("\n", " ").lstrip()
NormalizeAnswer(raw) ==
    LStrip(Replace(Replace(raw, AssistantPrefix, <<>>), <<NL>>, <<" ">>))

(***************************************************************************)
(* JSON documents and the raw results of the tool-client session           *)
(***************************************************************************)
Absent == "<absent>"                       \* a key the mapping does not hold
NoAnswer == [present |-> FALSE, text |-> <<>>]
SomeAnswer(text) == [present |-> TRUE, text |-> text]

\* A JSON document after json.loads: t is its Python type; the other fields
\* are the keys of a mapping that the callers read.
JsonValue(t) ==
    [t |-> t, status |-> Absent, message |-> Absent, answer |-> NoAnswer,
     context |-> <<>>, tables |-> <<>>]
JsonObject(status, message) ==
    [t |-> "dict", status |-> status, message |-> message, answer |-> NoAnswer,
     context |-> <<>>, tables |-> <<>>]
NoDoc == JsonValue("none")

\* what a Python call gives: a value, or a raised exception
Returned(val) == [raised |-> FALSE, exc |-> "", val |-> val]
Raised(exc) == [raised |-> TRUE, exc |-> exc, val |-> NoDoc]

\* a text is well-formed JSON (and then stands for its document) or not
JsonText(doc) == [wf |-> TRUE, doc |-> doc]
NotJson == [wf |-> FALSE, doc |-> NoDoc]

\* json.loads(text)
json_loads(text) ==
    IF text.wf THEN Returned(text.doc) ELSE Raised("JSONDecodeError")

\* the items of a CallToolResult's content
TextContent(text) == [hasText |-> TRUE, text |-> text]
OtherContent == [hasText |-> FALSE, text |-> NotJson]   \* e.g. ImageContent
\* execution.content: a list of items, or something that is no list
ContentList(items) == [isList |-> TRUE, items |-> items]
ContentNone == [isList |-> FALSE, items |-> <<>>]

\* what .result() of the scheduled coroutine gives the caller: the awaited
\* result of session.call_tool, or the exception raised inside the coroutine
\* (remote fault, transport fault, or the AttributeError of a None session)
RawResult(content) == [k |-> "ok", exc |-> "", content |-> content]
RawRaise(exc) == [k |-> "raise", exc |-> exc, content |-> ContentNone]

\* str(content) of something that is no non-empty list: only the empty list
\* prints as JSON ("[]"); None, "()" and the like do not
StrOfContent(content) ==
    IF content.isList /\ content.items = <<>>
    THEN JsonText(JsonValue("list")) ELSE NotJson

\* app.py 203-212: the body of the try block
call_snowflake_mcp_tool_try(tool_name, raw) ==
    IF raw.k = "raise" THEN Raised(raw.exc)
    ELSE LET content == raw.content IN
         IF content.isList /\ Len(content.items) > 0
         THEN LET text_obj == content.items[1] IN
              IF text_obj.hasText THEN json_loads(text_obj.text)
              ELSE Raised("TypeError")          \* json.loads of a non-string
         ELSE json_loads(StrOfContent(content))

\* app.py 215-218: the envelope built in the except branch
SnowflakeErrorEnvelope(tool_name, exc) ==
    JsonObject("error",
        "Fehler beim Aufrufen des Snowflake MCP Tools " \o tool_name \o ": " \o exc)

\* app.py 196-218
call_snowflake_mcp_tool(tool_name, raw) ==
    LET r == call_snowflake_mcp_tool_try(tool_name, raw) IN
    IF r.raised THEN Returned(SnowflakeErrorEnvelope(tool_name, r.exc)) ELSE r

\* dict.get(key) on what the adapter returned: only a mapping has .get
HasGet(val) == val.t = "dict"
DictGet_NoDefault(doc, key, default) ==
    IF key \in DOMAIN doc THEN doc[key] ELSE Absent
\* parsed.get(key, default) on a mapping
DictGet(doc, key, default) ==
    IF key \in DOMAIN doc /\ doc[key] # Absent THEN doc[key] ELSE default

(***************************************************************************)
(* Table names (app.py 484-490, snowflake.py 57-65)                        *)
(***************************************************************************)
LowerLetters == <<"a", "b", "c", "d", "e", "f", "g", "h", "i", "j", "k", "l", "m",
                  "n", "o", "p", "q", "r", "s", "t", "u", "v", "w", "x", "y", "z">>
UpperLetters == <<"A", "B", "C", "D", "E", "F", "G", "H", "I", "J", "K", "L", "M",
                  "N", "O", "P", "Q", "R", "S", "T", "U", "V", "W", "X", "Y", "Z">>

UpperChar(c) ==
    IF \E i \in 1..Len(LowerLetters) : LowerLetters[i] = c
    THEN UpperLetters[CHOOSE i \in 1..Len(LowerLetters) : LowerLetters[i] = c]
    ELSE c

\* str.upper()
Upper(s) == [i \in 1..Len(s) |-> UpperChar(s[i])]

\* str.startswith(p)
StartsWith(s, p) == StartsWithAt(s, p, 1)

\* str.removeprefix(p)
RemovePrefix(s, p) == IF StartsWith(s, p) THEN SubSeq(s, Len(p) + 1, Len(s)) ELSE s

LANGCHAIN_ == <<"L", "A", "N", "G", "C", "H", "A", "I", "N", "_">>
LANGCHAIN_TEST == LANGCHAIN_ \o <<"T", "E", "S", "T">>

\* A mutant of the normalization: the prefix is always added.
NormalizeTableName_AlwaysPrefix(text) ==
    IF text # <<>> THEN LANGCHAIN_ \o Upper(text) ELSE LANGCHAIN_TEST

\* app.py 484-490: the table name derived from the "Tabellenname" input
NormalizeTableName(text) ==
    IF text # <<>>
    THEN LET table_name == Upper(text) IN
         IF ~StartsWith(table_name, LANGCHAIN_)
         THEN LANGCHAIN_ \o table_name ELSE table_name
    ELSE LANGCHAIN_TEST

\* snowflake.py 61: the display name of a table row
DisplayName(name) == Upper(RemovePrefix(name, LANGCHAIN_))

(***************************************************************************)
(* The Navigator page of app.py: values                                    *)
(***************************************************************************)
LANGCHAIN_A == LANGCHAIN_ \o <<"A">>
\* the tables of the warehouse, in the order SHOW TABLES lists them
TableOrder == <<LANGCHAIN_A, LANGCHAIN_TEST>>
AllTables == {TableOrder[i] : i \in 1..Len(TableOrder)}

\* the value of the "selected_table" selectbox
SelUnset == [kind |-> "unset", name |-> <<>>]
SelNew == [kind |-> "new", name |-> <<>>]        \* "Erstelle neue Tabelle"
SelMulti == [kind |-> "multi", name |-> <<>>]    \* "Multi-Table-Selektion"
SelTable(d) == [kind |-> "table", name |-> d]    \* a display name

\* the value of st.session_state.option_table
OptUnset == [kind |-> "unset", name |-> <<>>, names |-> <<>>]
OptStr(n) == [kind |-> "str", name |-> n, names |-> <<>>]
OptList(ns) == [kind |-> "list", name |-> <<>>, names |-> ns]

\* texts the user may type into "Tabellenname"; TextUnset: the widget holds
\* no state yet and shows default_table_name (app.py 472-477)
TextUnset == <<"?">>
DefaultTableText == <<"T", "E", "S", "T">>
NewNameTexts == {<<"a">>}

\* st.secrets["snowflake"]["embedding_models"]
EmbeddingModels == <<"multilingual-e5-large", "snowflake-arctic-embed-m">>
EmbUnset == "<unset>"
DefaultEmbeddingModel == "multilingual-e5-large"       \* app.py 76

\* st.secrets["LLM"]["LLM_ASSISTANT"], the greeting
Assistant == <<"h", "i">>
Questions == {<<"q">>}

AITurn(content) == [type |-> "ai", content |-> content]
HumanTurn(content) == [type |-> "human", content |-> content]

\* the answer a completion gives: leading whitespace, "Assistant: ", a
\* line break
RawAnswer1 == <<" ">> \o AssistantPrefix \o <<"P", NL, "c">>
RawAnswers == {RawAnswer1}

\* a context item of a query response: the keys the caller reads
ContextItem(content) == [content |-> content]
ContextOf(raw) == <<ContextItem("chunk")>>

\* st.session_state.answer and .response
NoneAnswer == [set |-> FALSE, text |-> <<>>]
NoneResponse == [set |-> FALSE, output |-> <<>>, context |-> <<>>]

\* uploaded transcript files: unreadable as JSON, or a list of entries
NoFile == [file |-> FALSE, wf |-> FALSE, entries |-> <<>>]
BadFile == [file |-> TRUE, wf |-> FALSE, entries |-> <<>>]
ChatFile(entries) == [file |-> TRUE, wf |-> TRUE, entries |-> entries]
Entry(type, content) == [isDict |-> TRUE, type |-> type, content |-> content]
Transcripts ==
    { ChatFile(<<Entry("human", <<"q">>), Entry("ai", <<"x">>)>>),
      ChatFile(<<>>) }

(***************************************************************************)
(* The remote side as the app sees it                                      *)
(***************************************************************************)
Row(name) == [name |-> name, display_name |-> DisplayName(name)]
RowsOf(ts) == LET present == SelectSeq(TableOrder, LAMBDA n : n \in ts)
              IN [i \in 1..Len(present) |-> Row(present[i])]

\* the documents the server tools of snowflake.py answer with
DocOk == JsonObject("success", "ok")
DocError == JsonObject("error", "boom")
DocTables(ts) == [JsonObject("success", Absent) EXCEPT !.tables = RowsOf(ts)]
DocAnswer(raw) ==
    [JsonObject("success", Absent) EXCEPT !.answer = SomeAnswer(raw),
                                          !.context = ContextOf(raw)]
DocTimeout == JsonObject("error", "timeout")
\* documents a server that breaks the envelope convention may answer with
DocNoStatus == JsonObject(Absent, Absent)
DocList == JsonValue("list")

TextResult(doc) == RawResult(ContentList(<<TextContent(JsonText(doc))>>))
TransportFault == RawRaise("TransportError")

\* the outcomes of one call as the caller may meet them
RawsOf(docs) == {TransportFault} \cup {TextResult(d) : d \in docs}

(***************************************************************************)
(* One run of the script on the Navigator page, as a chain of stages on a  *)
(* record s: the session state, the widget state, the remote tables, and   *)
(* what the run has done so far. A stage does nothing once the run has     *)
(* stopped (an uncaught exception, or st.rerun()).                         *)
(***************************************************************************)
NoRag == [issued |-> FALSE, query |-> <<>>, table |-> OptUnset, before |-> <<>>,
          ret |-> NoDoc, error |-> Absent]
NoIngest == [submitted |-> FALSE, issued |-> FALSE, ntexts |-> 0,
             table |-> OptUnset, ret |-> NoDoc, error |-> Absent]
\* what the top of a run has made: the clients, event loops and threads it
\* created, whether its connect succeeded, and the st.error calls about it
NoStartup == [clients |-> 0, loops |-> 0, threads |-> 0,
              connected |-> FALSE, reports |-> 0]
NoRun == [changed |-> "none", vector0 |-> FALSE, calls |-> <<>>, fault |-> "none",
          notices |-> {}, rerun |-> FALSE, greeted |-> FALSE,
          rag |-> NoRag, ingest |-> NoIngest, startup |-> NoStartup, rets |-> <<>>,
          direct |-> {}]
NothingRendered == [w |-> {}, shown |-> <<>>]

Fault(s, what) == [s EXCEPT !.fault = what, !.stop = TRUE]
Called(s, tool_name) == [s EXCEPT !.calls = Append(@, tool_name)]
\* what a call of the adapter gave its call site: an exception, or a value
\* of some type and, for a mapping, its status
Got(s, result) ==
    [s EXCEPT !.rets = Append(@, [raised |-> result.raised, t |-> result.val.t,
                                  status |-> result.val.status])]
Notice(s, what) == [s EXCEPT !.notices = @ \cup {what}]
\* a function of minio_utils the script calls itself, with its own client
Direct(s, fn) == [s EXCEPT !.direct = @ \cup {fn}]
Render(s, widget) == [s EXCEPT !.w = @ \cup {widget}]

\* app.py 68-78: the defaults set at the top of every run
Stage_Defaults(s) ==
    IF s.embedding_model = EmbUnset
    THEN [s EXCEPT !.option_embedding_model = DefaultEmbeddingModel]
    ELSE s

\* connect_to_sse_server of src/client.py: the client has a session once
\* the connect has succeeded, and none before
connect_to_sse_server(reachable) == reachable

\* app.py 119-121: the wait for the connect; its failure or timeout is
\* caught and reported with one st.error
ConnectReports_Silent(connected) == 0
ConnectReports(connected) == IF connected THEN 0 ELSE 1

\* app.py 87-121, at the top level of the script: a client, an event loop
\* and a daemon thread running the loop are made, and the connect awaited
Stage_Startup(s, reachable) ==
    LET connected == connect_to_sse_server(reachable)
    IN  [s EXCEPT !.startup = [clients |-> 1, loops |-> 1, threads |-> 1,
                               connected |-> connected,
                               reports |-> ConnectReports(connected)]]

\* app.py 399-403: the session tool is called and its status read
Stage_Session(s, raw) ==
    IF s.stop THEN s ELSE
    LET r == call_snowflake_mcp_tool("snowflake_create_session", raw).val
        s1 == Got(Called(s, "snowflake_create_session"),
                  call_snowflake_mcp_tool("snowflake_create_session", raw))
    IN  IF ~HasGet(r) THEN Fault(s1, "AttributeError:402")
        ELSE s1            \* another status is only shown

DisplayNames(rows) == [i \in 1..Len(rows) |-> rows[i].display_name]
SeqRange(q) == {q[i] : i \in 1..Len(q)}
\* name_map[d] of app.py 415
NameOf(rows, d) == (CHOOSE i \in 1..Len(rows) : rows[i].display_name = d)

\* app.py 410-449: the table list and the selectbox. No bucket query
\* parameter is given, so selected_index is 1. A selectbox whose stored
\* value is not among its options shows the option at its index.
Stage_Tables(s, raw) ==
    IF s.stop THEN s ELSE
    LET tables_response == call_snowflake_mcp_tool("snowflake_list_tables", raw).val
        s1 == Got(Called(s, "snowflake_list_tables"),
                  call_snowflake_mcp_tool("snowflake_list_tables", raw))
    IN  IF ~HasGet(tables_response) THEN Fault(s1, "AttributeError:412")
        ELSE
        LET ok == tables_response.status = "success"
            rows == IF ok THEN tables_response.tables ELSE <<>>
            display_names == DisplayNames(rows)
            default == IF Len(display_names) > 0 THEN SelTable(display_names[1])
                       ELSE SelMulti
            cur == s.selected_table
            valid == \/ cur \in {SelNew, SelMulti}
                     \/ cur.kind = "table" /\ cur.name \in SeqRange(display_names)
        IN  [Render(s1, "selectbox") EXCEPT
                 !.rows = rows,
                 !.selected_table = IF valid THEN cur ELSE default]

\* app.py 451-469: the drop button of a single table. drop_raw is the
\* outcome of the drop call; the table is gone iff the server answered
\* success.
Stage_Drop(s, pressed, drop_raw) ==
    IF s.stop \/ s.selected_table.kind # "table" THEN s ELSE
    LET s1 == Render(s, "drop") IN
    IF ~pressed THEN s1 ELSE
    LET db_table_name == s.rows[NameOf(s.rows, s.selected_table.name)].name
        dropped == drop_raw.k = "ok" /\ drop_raw = TextResult(DocOk)
        drop_response == call_snowflake_mcp_tool("snowflake_drop_table", drop_raw).val
        s2 == [Got(Called(s1, "snowflake_drop_table"),
                   call_snowflake_mcp_tool("snowflake_drop_table", drop_raw)) EXCEPT
                  !.tables = IF dropped THEN @ \ {db_table_name} ELSE @]
    IN  IF ~HasGet(drop_response) THEN Fault(s2, "AttributeError:461")
        ELSE IF drop_response.status = "success"
        THEN [s2 EXCEPT !.vector = FALSE, !.rerun = TRUE, !.stop = TRUE]
        ELSE Notice(s2, "drop_error")

\* the raw names of the rows whose display name is selected, in row order
NamesOf(rows, selection) ==
    LET chosen == SelectSeq(rows, LAMBDA r : r.display_name \in selection)
    IN  [i \in 1..Len(chosen) |-> chosen[i].name]

\* app.py 471-529: option_table from the selection, and the locals
\* (model, system, assistant) that exist unless a new table is created
Stage_Selection(s) ==
    IF s.stop THEN s ELSE
    IF s.selected_table.kind = "new"
    THEN LET text == IF s.new_disp = TextUnset THEN DefaultTableText ELSE s.new_disp
             emb == IF s.embedding_model = EmbUnset THEN EmbeddingModels[1]
                    ELSE s.embedding_model
         IN [Render(Render(s, "newname"), "embedding") EXCEPT
                !.new_disp = text,
                !.embedding_model = emb,
                !.option_embedding_model = emb,
                !.option_table = OptStr(NormalizeTableName(text))]
    ELSE IF s.selected_table.kind = "multi"
    THEN LET sel == IF s.multi_table_selection \subseteq SeqRange(DisplayNames(s.rows))
                    THEN s.multi_table_selection ELSE {}
             s1 == [Render(s, "multiselect") EXCEPT
                       !.multi_table_selection = sel, !.locals = TRUE]
         IN IF Cardinality(sel) < 2
            THEN [Notice(s1, "multi_warning") EXCEPT !.option_table = OptList(<<>>)]
            ELSE [s1 EXCEPT !.option_table = OptList(NamesOf(s.rows, sel))]
    ELSE [s EXCEPT
             !.option_table = OptStr(s.rows[NameOf(s.rows, s.selected_table.name)].name),
             !.locals = TRUE]

RECURSIVE ImportEntries(_, _)
\* app.py 546-552: the entries are added in order; an entry that is no
\* mapping raises and ends the loop with what was added so far
ImportEntries(entries, msgs) ==
    IF entries = <<>> THEN [msgs |-> msgs, ok |-> TRUE]
    ELSE LET msg == Head(entries) IN
         IF ~msg.isDict THEN [msgs |-> msgs, ok |-> FALSE]
         ELSE IF msg.type = "ai"
              THEN ImportEntries(Tail(entries), Append(msgs, AITurn(msg.content)))
         ELSE IF msg.type = "human"
              THEN ImportEntries(Tail(entries), Append(msgs, HumanTurn(msg.content)))
         ELSE ImportEntries(Tail(entries), msgs)

\* getattr(msgs_tmp, "messages", []) of app.py 533: msgs_tmp is the list
\* that StreamlitChatMessageHistory keeps under "langchain_messages", and a
\* list has no attribute "messages"
GetattrMessages(msgs_tmp) == <<>>

\* app.py 532-533
msgs_empty(msgs_tmp) == msgs_tmp = <<>> \/ GetattrMessages(msgs_tmp) = <<>>

\* app.py 531-555: the transcript import of the sidebar
Stage_Import(s) ==
    IF s.stop THEN s ELSE
    IF ~msgs_empty(s.messages) THEN s ELSE
    LET s1 == Render(s, "uploader")
        uploaded == s.uploaded_chat
    IN  IF ~uploaded.file THEN s1
        ELSE IF ~uploaded.wf THEN Notice(s1, "import_error")   \* json.load raises
        ELSE LET got == ImportEntries(uploaded.entries, <<>>) IN
             [Notice(s1, IF got.ok THEN "import_toast" ELSE "import_error")
                 EXCEPT !.messages = got.msgs]

(***************************************************************************)
(* The blob store as the ingest form meets it (app.py 564-586, 613-664)   *)
(***************************************************************************)
\* an object of the bucket: its name, its extension, whether fget_object
\* succeeds for it
Object(name, ext, dl) == [name |-> name, ext |-> ext, dl |-> dl]
\* list_buckets / list_objects of minio_utils give a list, or None after a
\* caught exception
MinioEnv(bucketsOk, buckets, objectsOk, objects) ==
    [bucketsOk |-> bucketsOk, buckets |-> buckets,
     objectsOk |-> objectsOk, objects |-> objects]
MinioEnvs ==
    { MinioEnv(FALSE, <<>>, FALSE, <<>>),
      MinioEnv(TRUE, <<>>, FALSE, <<>>),
      MinioEnv(TRUE, <<"docs">>, FALSE, <<>>),
      MinioEnv(TRUE, <<"docs">>, TRUE, <<>>),
      MinioEnv(TRUE, <<"docs">>, TRUE, <<Object("a.txt", "txt", TRUE)>>) }

LoaderPatterns == {"docx", "pdf", "csv", "txt"}       \* app.py 688
\* app.py 630-664: an object gives documents iff a pattern matches it, its
\* download succeeds and it is not questions.txt
Loads(o) == o.ext \in LoaderPatterns /\ o.dl /\ o.name # "questions.txt"

\* app.py 624-625: "not object_names", for None and for the empty list;
\* without a bucket the listing fails
NoObjects(env) == ~env.objectsOk \/ env.buckets = <<>> \/ env.objects = <<>>

\* app.py 613-677, one document per loaded object; no URL is given
\* (the URL input is disabled)
CustomDirectoryLoader_load(env) ==
    IF NoObjects(env) THEN <<>>
    ELSE LET loaded == SelectSeq(env.objects, Loads)
         IN  [i \in 1..Len(loaded) |-> [source |-> loaded[i].name, page |-> 0]]

\* A mutant of the ingest: the flag is set whatever the tool answered.
IngestSetsFlag_Always(vector_store_response) == TRUE

\* app.py 720: the flag is set iff the tool answered success
IngestSetsFlag(vector_store_response) == vector_store_response.status = "success"

\* app.py 561-734: the ingest form of create-new-table mode. env is the
\* blob store, vs_raw the outcome of snowflake_create_vector_store; the
\* table exists afterwards iff the server answered success.
Stage_Form(s, submitted, env, vs_raw) ==
    IF s.stop \/ s.selected_table.kind # "new" THEN s ELSE
    LET s0 == Direct(Direct(s, "get_minio_client"), "list_buckets") IN   \* 565-567
    IF ~env.bucketsOk THEN Fault(s0, "TypeError:573") ELSE
    LET s1 == Render(s0, "form") IN
    IF ~submitted THEN s1 ELSE
    LET s2 == [s1 EXCEPT !.ingest.submitted = TRUE] IN
    IF s.vector THEN s2 ELSE
    LET docs == CustomDirectoryLoader_load(env)
        s3 == IF NoObjects(env)
              THEN Notice(Direct(s2, "list_objects"), "no_files")
              ELSE Direct(s2, "list_objects")                            \* 624
        texts == docs                 \* each document is one chunk
        created == vs_raw = TextResult(DocOk)
        vector_store_response ==
            call_snowflake_mcp_tool("snowflake_create_vector_store", vs_raw).val
        s4 == [Got(Called(s3, "snowflake_create_vector_store"),
                   call_snowflake_mcp_tool("snowflake_create_vector_store", vs_raw)) EXCEPT
                  !.ingest.issued = TRUE,
                  !.ingest.ntexts = Len(texts),
                  !.ingest.table = s.option_table,
                  !.ingest.ret = vector_store_response,
                  !.tables = IF created THEN @ \cup {s.option_table.name} ELSE @]
    IN  IF ~HasGet(vector_store_response) THEN Fault(s4, "AttributeError:720")
        ELSE IF IngestSetsFlag(vector_store_response)
        THEN [s4 EXCEPT !.vector = TRUE, !.rerun = TRUE, !.stop = TRUE]
        ELSE [s4 EXCEPT !.ingest.error = vector_store_response.message]

\* app.py 736-739: an existing table needs no ingest
Stage_Connect(s) ==
    IF s.stop THEN s ELSE
    IF ~s.vector /\ s.selected_table.kind # "new"
    THEN [s EXCEPT !.vector = TRUE] ELSE s

\* "Keine Antwort erhalten.", the default of app.py 778
DefaultAnswer == <<"K", "e", "i", "n", "e", " ", "A", "n", "t", "w", "o", "r", "t",
                   " ", "e", "r", "h", "a", "l", "t", "e", "n", ".">>
DefaultRagError == "Ein unbekannter Fehler ist aufgetreten."     \* app.py 807

\* A mutant of the guard: only a list of exactly one table is refused.
MultiGuard_OneOnly(option) == option.kind = "list" /\ Len(option.names) = 1

\* app.py 743: Multi-Table with fewer than 2 tables
MultiGuard(option) == option.kind = "list" /\ Len(option.names) < 2

\* A mutant of the success branch: the answer is added before the question.
AppendTurns_AnswerFirst(msgs, user_input, text) ==
    Append(Append(msgs, AITurn(text)), HumanTurn(user_input))

\* app.py 798-799
AppendTurns(msgs, user_input, text) ==
    Append(Append(msgs, HumanTurn(user_input)), AITurn(text))

\* app.py 807: rag_response.get("message", default)
RagErrorText(rag_response) ==
    IF rag_response.message # Absent THEN rag_response.message ELSE DefaultRagError

\* A mutant of the dispatch: a failed query is recorded as a turn too.
RagAppends_Always(rag_response) == TRUE

\* app.py 777: the branch that stores the answer and appends the turns
RagAppends(rag_response) == rag_response.status = "success"

\* A mutant of the greeting: an empty history is left empty.
Greet_Never(msgs) == msgs

\* app.py 747-749: the assistant instruction opens an empty history
Greet(msgs) == IF Len(msgs) = 0 THEN <<AITurn(Assistant)>> ELSE msgs

\* app.py 741-864: the chat interface. asked: the chat input holds
\* user_input; rag_raw: the outcome of snowflake_query_rag.
\* app.py 789-793: the Document of a context item
Document(doc_result) == [page_content |-> DictGet(doc_result, "content", "")]
\* app.py 778-793: the response stored for a query answered with success
StoredResponse(rag_response) ==
    LET raw == IF rag_response.answer.present
               THEN rag_response.answer.text ELSE DefaultAnswer
    IN  [set |-> TRUE, output |-> NormalizeAnswer(raw),
         context |-> [i \in 1..Len(rag_response.context) |->
                         Document(rag_response.context[i])]]

Stage_Chat(s, asked, user_input, rag_raw) ==
    IF s.stop THEN s ELSE
    IF ~s.vector
    THEN Notice(s, IF s.selected_table.kind = "new" THEN "need_ingest" ELSE "connecting")
    ELSE IF MultiGuard(s.option_table) THEN Notice(s, "multi_info")
    ELSE IF s.messages = <<>> /\ ~s.locals THEN Fault(s, "NameError:749")
    ELSE
    LET s1 == IF s.messages = <<>>
              THEN [s EXCEPT !.messages = Greet(@), !.greeted = TRUE]
              ELSE s
        s2 == Render(s1, "chat")
    IN  IF ~asked THEN s2
        ELSE IF ~s.locals THEN Fault(s2, "NameError:769")
        ELSE
        LET rag_response == call_snowflake_mcp_tool("snowflake_query_rag", rag_raw).val
            s3 == [Got(Called(s2, "snowflake_query_rag"),
                       call_snowflake_mcp_tool("snowflake_query_rag", rag_raw)) EXCEPT
                      !.rag.issued = TRUE,
                      !.rag.query = user_input,
                      !.rag.table = s.option_table,
                      !.rag.before = s1.messages,
                      !.rag.ret = rag_response]
        IN  IF ~HasGet(rag_response) THEN Fault(s3, "AttributeError:777")
            ELSE IF RagAppends(rag_response)
            THEN LET raw == IF rag_response.answer.present
                            THEN rag_response.answer.text ELSE DefaultAnswer
                     text == NormalizeAnswer(raw)
                 IN [s3 EXCEPT
                        !.response = StoredResponse(rag_response),
                        !.answer = [set |-> TRUE, text |-> text],
                        !.messages = AppendTurns(@, user_input, text)]
            ELSE [s3 EXCEPT !.rag.error = RagErrorText(rag_response)]

(***************************************************************************)
(* The script run                                                          *)
(***************************************************************************)
MaxTurns == 4          \* no question is asked once the history is this long

NoEvent == [kind |-> "none", text |-> <<>>]
DropEvent == [kind |-> "drop", text |-> <<>>]
IngestEvent == [kind |-> "ingest", text |-> <<>>]
AskEvent(q) == [kind |-> "ask", text |-> q]

\* the record the stages work on, at the top of a run
StartOfRun ==
    [vector |-> vector, option_table |-> option_table, messages |-> messages,
     answer |-> answer, response |-> response,
     option_embedding_model |-> option_embedding_model,
     selected_table |-> selected_table,
     multi_table_selection |-> multi_table_selection,
     new_disp |-> new_disp, embedding_model |-> embedding_model,
     uploaded_chat |-> uploaded_chat, tables |-> tables,
     rows |-> <<>>, w |-> {}, locals |-> FALSE, stop |-> FALSE,
     calls |-> <<>>, fault |-> "none", notices |-> {}, rerun |-> FALSE,
     greeted |-> FALSE, rag |-> NoRag, ingest |-> NoIngest,
     startup |-> NoStartup, rets |-> <<>>, direct |-> {}]

\* the outcomes of the calls of one run. Without a session (the connect of
\* app.py 113-121 failed) every call raises inside its coroutine.
SessionRaws(connected) ==
    IF connected THEN {TextResult(DocOk)} ELSE {RawRaise("AttributeError")}
TablesRaws(connected) ==
    IF connected THEN {TextResult(DocTables(tables))} ELSE {RawRaise("AttributeError")}
EventRaws(connected, ev) ==
    IF ~connected THEN {RawRaise("AttributeError")}
    ELSE IF ev.kind = "drop" THEN RawsOf({DocOk, DocError, DocList})
    ELSE IF ev.kind = "ingest" THEN RawsOf({DocOk, DocError, DocNoStatus, DocList})
    ELSE IF ev.kind = "ask"
         THEN RawsOf({DocAnswer(r) : r \in RawAnswers}
                     \cup {DocOk, DocTimeout, DocNoStatus, DocList})
    ELSE {TransportFault}
\* the object store matters to a run that renders the ingest form; only the
\* bucket listing matters unless the form is submitted
RunEnvs(s0, ev) ==
    IF s0.selected_table # SelNew THEN {MinioEnv(FALSE, <<>>, FALSE, <<>>)}
    ELSE IF ev.kind = "ingest" THEN MinioEnvs
    ELSE {e \in MinioEnvs : ~e.objectsOk}

\* One execution of the script (app.py 398-864, in the order of the
\* script), from the session and widget state s0, delivering the
\* interaction ev; changed names the widget the user changed. A run that
\* ends normally drops the state of the widgets it did not render; a run
\* stopped by an exception or by st.rerun() keeps the widget state.
Run(s0, ev, changed) ==
    \E connected \in BOOLEAN :
    \E session_raw \in SessionRaws(connected), tables_raw \in TablesRaws(connected),
       call_raw \in EventRaws(connected, ev), env \in RunEnvs(s0, ev) :
    \E s1 \in {Stage_Session(Stage_Startup(Stage_Defaults(s0), connected),
                              session_raw)} :
    \E s2 \in {Stage_Tables(s1, tables_raw)} :
    \E s3 \in {Stage_Drop(s2, ev.kind = "drop", call_raw)} :
    \E s4 \in {Stage_Selection(s3)} :
    \E s5 \in {Stage_Import(s4)} :
    \E s6 \in {Stage_Form(s5, ev.kind = "ingest", env, call_raw)} :
    \E s7 \in {Stage_Connect(s6)} :
    \E s \in {Stage_Chat(s7, ev.kind = "ask", ev.text, call_raw)} :
    LET kept(widget, value, none) ==
            IF s.stop \/ widget \in s.w THEN value ELSE none
    IN  /\ vector' = s.vector
        /\ option_table' = s.option_table
        /\ messages' = s.messages
        /\ answer' = s.answer
        /\ response' = s.response
        /\ option_embedding_model' = s.option_embedding_model
        /\ selected_table' = s.selected_table
        /\ multi_table_selection' = kept("multiselect", s.multi_table_selection, {})
        /\ new_disp' = kept("newname", s.new_disp, TextUnset)
        /\ embedding_model' = kept("embedding", s.embedding_model, EmbUnset)
        /\ uploaded_chat' = kept("uploader", s.uploaded_chat, NoFile)
        /\ tables' = s.tables
        /\ rendered' = [w |-> s.w, shown |-> DisplayNames(s.rows)]
        /\ run' = [changed |-> changed, vector0 |-> s0.vector,
                   calls |-> s.calls, fault |-> s.fault, notices |-> s.notices,
                   rerun |-> s.rerun, greeted |-> s.greeted,
                   rag |-> s.rag, ingest |-> s.ingest,
                   startup |-> s.startup, rets |-> s.rets, direct |-> s.direct]
        /\ phase' = IF s.rerun THEN "rerun" ELSE "idle"
        /\ UNCHANGED <<probe, ret, script, loop>>

(***************************************************************************)
(* The user's interactions: each changes widget state, runs the widget's   *)
(* on_change callback if it has one, and then the script runs.             *)
(***************************************************************************)
\* _reset_vector_store of src/server/snowrag/snowrag.py, the on_change
\* callback of the selection widgets: the "vector" flag is cleared
reset_vector_store(flag) == FALSE

\* the script thread between runs and the loop with nothing to do
ScriptIdle ==
    [pc |-> "idle", pending |-> "none", presses |-> 0, submitted |-> FALSE,
     vector |-> FALSE, vector0 |-> FALSE, site |-> "none", waits |-> 0,
     made |-> <<>>, issued |-> <<>>]
LoopEmpty == [queue |-> <<>>, inflight |-> {}, results |-> <<>>]
NoProbe == [fn |-> "none"]
NoRet == [fn |-> "none"]

\* the first run of a session, and the run that st.rerun() asks for
ScriptRun == phase = "rerun" /\ Run(StartOfRun, NoEvent, "none")

\* app.py 443-449: another option of the selectbox is picked
SelectTable(v) ==
    /\ phase = "idle" /\ "selectbox" \in rendered.w
    /\ v # selected_table
    /\ Run([StartOfRun EXCEPT !.selected_table = v,
                              !.vector = reset_vector_store(vector)],
           NoEvent, "selected_table")

\* app.py 502-508: the multiselect is changed
ChangeMultiSelection(sel) ==
    /\ phase = "idle" /\ "multiselect" \in rendered.w
    /\ sel # multi_table_selection
    /\ Run([StartOfRun EXCEPT !.multi_table_selection = sel,
                              !.vector = reset_vector_store(vector)],
           NoEvent, "multi_table_selection")

\* app.py 476-477: another table name is typed
ChangeNewName(text) ==
    /\ phase = "idle" /\ "newname" \in rendered.w
    /\ text # new_disp
    /\ Run([StartOfRun EXCEPT !.new_disp = text,
                              !.vector = reset_vector_store(vector)],
           NoEvent, "new_disp")

\* app.py 478-481: another embedding model is picked; the selectbox has no
\* on_change callback
ChangeEmbeddingModel(model) ==
    /\ phase = "idle" /\ "embedding" \in rendered.w
    /\ model # embedding_model
    /\ Run([StartOfRun EXCEPT !.embedding_model = model], NoEvent, "embedding_model")

\* app.py 535: a transcript is put into the uploader, or taken out of it
UploadChat(file) ==
    /\ phase = "idle" /\ "uploader" \in rendered.w
    /\ file # uploaded_chat
    /\ Run([StartOfRun EXCEPT !.uploaded_chat = file], NoEvent, "uploaded_chat")

\* app.py 454: "Tabelle loeschen"
PressDrop ==
    phase = "idle" /\ "drop" \in rendered.w /\ Run(StartOfRun, DropEvent, "none")
\* app.py 596: the submit button of the ingest form
SubmitIngest ==
    phase = "idle" /\ "form" \in rendered.w /\ Run(StartOfRun, IngestEvent, "none")
\* app.py 757: a question is entered into the chat input
AskQuestion(q) ==
    /\ phase = "idle" /\ "chat" \in rendered.w
    /\ Len(messages) + 2 <= MaxTurns
    /\ Run(StartOfRun, AskEvent(q), "none")
\* the page is run again without any change
Rerun == phase = "idle" /\ Run(StartOfRun, NoEvent, "none")

Init ==
    /\ vector = FALSE
    /\ option_table = OptUnset
    /\ messages = <<>>
    /\ answer = NoneAnswer
    /\ response = NoneResponse
    /\ option_embedding_model = DefaultEmbeddingModel
    /\ selected_table = SelUnset
    /\ multi_table_selection = {}
    /\ new_disp = TextUnset
    /\ embedding_model = EmbUnset
    /\ uploaded_chat = NoFile
    /\ tables = AllTables
    /\ phase = "rerun"
    /\ rendered = NothingRendered
    /\ run = NoRun
    /\ probe = NoProbe
    /\ ret = NoRet
    /\ script = ScriptIdle
    /\ loop = LoopEmpty

Next ==
    \/ ScriptRun
    \/ \E v \in {SelNew, SelMulti} \cup {SelTable(d) : d \in SeqRange(rendered.shown)} :
          SelectTable(v)
    \/ \E sel \in SUBSET SeqRange(rendered.shown) : ChangeMultiSelection(sel)
    \/ \E text \in NewNameTexts : ChangeNewName(text)
    \/ \E i \in 1..Len(EmbeddingModels) : ChangeEmbeddingModel(EmbeddingModels[i])
    \/ \E file \in (Transcripts \cup {NoFile}) : UploadChat(file)
    \/ PressDrop
    \/ SubmitIngest
    \/ \E q \in Questions : AskQuestion(q)
    \/ Rerun

Spec == Init /\ [][Next]_vars

(***************************************************************************)
(* Properties of the Navigator page                                        *)
(***************************************************************************)
\* the run that has just ended dispatched a query and got a mapping back
RagReturned == run.rag.issued /\ HasGet(run.rag.ret)
RagSucceeded == RagReturned /\ run.rag.ret.status = "success"
RagFailed == RagReturned /\ run.rag.ret.status # "success"

\* the run that has just ended was one in Multi-Table mode with fewer than
\* 2 tables selected
MultiBelowTwo ==
    /\ selected_table = SelMulti /\ "multiselect" \in rendered.w
    /\ option_table.kind = "list" /\ Len(option_table.names) < 2

\* the turns the transcript in the uploader gives
Imported(file) == ImportEntries(file.entries, <<>>).msgs

\* C2, as stated: a run with a Multi-Table selection of fewer than 2 tables
\* issues no snowflake_query_rag call and leaves the conversation history
\* exactly as it was before the run.
C2_MultiRunKeepsHistory ==
    [][MultiBelowTwo' => (~run'.rag.issued /\ messages' = messages)]_vars

\* C2, amended: a run with a Multi-Table selection of fewer than 2 tables
\* issues no snowflake_query_rag call, adds no greeting, human or AI turn
\* and shows the notice; the history after the run is the history before
\* it, or, when a readable transcript is in the uploader, the turns
\* imported from that transcript.
C2_MultiRunNoDispatch ==
    [][MultiBelowTwo' =>
          /\ ~run'.rag.issued /\ ~run'.greeted
          /\ "snowflake_query_rag" \notin SeqRange(run'.calls)
          /\ "multi_info" \in run'.notices
          /\ \/ messages' = messages
             \/ /\ uploaded_chat'.file /\ uploaded_chat'.wf
                /\ messages' = Imported(uploaded_chat')]_vars

\* a Multi-Table run with one table selected, after a single-table chat
\* whose turns the import of the run has replaced
C2_Witness ==
    /\ MultiBelowTwo /\ Cardinality(multi_table_selection) = 1
    /\ "multi_info" \in run.notices /\ ~run.rag.issued
    /\ answer.set /\ uploaded_chat.file /\ Len(messages) = 2

\* the widgets whose values make up the collection selection
SelectionWidgets ==
    {"selected_table", "multi_table_selection", "new_disp", "embedding_model"}

\* C3, as stated: after the user changed a field of the collection
\* selection the "vector" flag is cleared when the script runs, and a
\* query is only dispatched with the flag set again.
C3_SelectionChangeClearsFlag ==
    [][/\ run'.changed \in SelectionWidgets => ~run'.vector0
       /\ run'.rag.issued => vector']_vars

\* C4: when snowflake_query_rag gives an envelope whose status is not
\* success, the history is the one the query was dispatched with, the
\* stored answer and response are unchanged, and the message of the
\* envelope is the error text shown.
C4_FailedQueryKeepsState ==
    [][RagFailed' =>
          /\ messages' = run'.rag.before
          /\ answer' = answer /\ response' = response
          /\ run'.rag.ret.message # Absent => run'.rag.error = run'.rag.ret.message
          /\ run'.rag.error # Absent]_vars

\* a failed query, with the server's message shown, after an answer was
\* stored by an earlier query
C4_Witness ==
    /\ RagFailed /\ run.rag.error = "timeout"
    /\ answer.set /\ Len(messages) = 2

\* C5: after a query answered with status success, the history is the one
\* the query was dispatched with followed by exactly two turns: the human
\* turn with the question, then the AI turn with the normalized answer.
C5_SuccessAppendsTwoTurns ==
    [][RagSucceeded' =>
          /\ Len(messages') = Len(run'.rag.before) + 2
          /\ SubSeq(messages', 1, Len(run'.rag.before)) = run'.rag.before
          /\ messages'[Len(messages') - 1] = HumanTurn(run'.rag.query)
          /\ messages'[Len(messages')] = AITurn(answer'.text)
          /\ answer'.set
          /\ run'.rag.ret.answer.present =>
                answer'.text = NormalizeAnswer(run'.rag.ret.answer.text)]_vars

\* a successful query after the greeting
C5_Witness ==
    /\ RagSucceeded /\ run.rag.ret.answer.present
    /\ messages = <<AITurn(Assistant), HumanTurn(<<"q">>), AITurn(<<"P", " ", "c">>)>>

\* C7, as stated: an ingest submission that finds no objects in the bucket
\* issues no snowflake_create_vector_store call and leaves the flag, the
\* selection and the history unchanged.
C7_EmptyBucketIsNoOp ==
    [][(run'.ingest.submitted /\ "no_files" \in run'.notices) =>
          /\ ~run'.ingest.issued
          /\ vector' = vector
          /\ selected_table' = selected_table /\ option_table' = option_table
          /\ messages' = messages]_vars

\* the run that has just ended called snowflake_create_vector_store and was
\* answered success
IngestSucceeded ==
    /\ run.ingest.issued /\ HasGet(run.ingest.ret)
    /\ run.ingest.ret.status = "success"

\* C8: an ingest submission sets the flag iff snowflake_create_vector_store
\* answered success; after a failed ingest the flag is absent, the
\* selection and the history are what they were, the form is there again,
\* and every submission made without the flag calls the tool anew.
C8_FlagIffIngestSuccess ==
    [][run'.ingest.submitted =>
          /\ (~vector /\ vector') <=> IngestSucceeded'
          /\ ~vector => run'.ingest.issued
          /\ (run'.ingest.issued /\ ~IngestSucceeded') =>
                /\ ~vector'
                /\ selected_table' = selected_table
                /\ option_table' = option_table
                /\ new_disp' = new_disp /\ embedding_model' = embedding_model
                /\ messages' = messages
                /\ "form" \in rendered'.w /\ phase' = "idle"]_vars

\* a failed ingest: the message is shown, the flag is absent, the form can
\* be submitted again
C8_Witness ==
    /\ run.ingest.issued /\ run.ingest.error = "boom" /\ ~vector
    /\ "form" \in rendered.w /\ phase = "idle"


(***************************************************************************)
(* The start of the script (app.py 87-121)                                 *)
(***************************************************************************)
Started(r) == r.startup.clients > 0
ConnectFailed(r) == Started(r) /\ ~r.startup.connected
CallSiteFaults == {"AttributeError:402", "AttributeError:412", "AttributeError:461",
                   "AttributeError:720", "AttributeError:777"}
ErrorEnvelopeGot(g) == ~g.raised /\ g.t = "dict" /\ g.status = "error"

\* C11: a run whose connect to the tool server failed or timed out reports
\* the failure exactly once, goes on to render the page (the table
\* selectbox is shown and no call site faults), and every
\* call_snowflake_mcp_tool of the run returns a status "error" envelope
\* instead of raising.
C11_ConnectFailureIsSurvived ==
    [][ConnectFailed(run')
         => /\ run'.startup.reports = 1
            /\ "selectbox" \in rendered'.w
            /\ run'.fault \notin CallSiteFaults
            /\ \A i \in 1..Len(run'.rets) : ErrorEnvelopeGot(run'.rets[i])]_vars

\* a run without a connection in which the ingest form was submitted:
\* three calls (session, table list, vector store), each answered by an
\* error envelope
C11_Witness ==
    /\ ConnectFailed(run)
    /\ run.startup.reports = 1
    /\ "snowflake_create_vector_store" \in SeqRange(run.calls)
    /\ Len(run.rets) = 3
    /\ \A i \in 1..Len(run.rets) : ErrorEnvelopeGot(run.rets[i])

\* C12: a re-execution of the script reuses the client, the event loop and
\* the thread of the first execution: it creates none of them again.
C12_ReexecutionCreatesNothing ==
    [][Started(run) => /\ run'.startup.clients = 0
                       /\ run'.startup.loops = 0
                       /\ run'.startup.threads = 0]_vars

(***************************************************************************)
(* The conversation history                                                *)
(***************************************************************************)
\* C13: in every run but the one in which the user puts a transcript into
\* the uploader (or takes it out), the conversation history only grows by
\* appending: the history before the run is a prefix of the history after
\* it, so no turn is removed, reordered or modified.
C13_HistoryOnlyGrows ==
    [][run'.changed # "uploaded_chat" => StartsWith(messages', messages)]_vars

HumanFirst(msgs) == msgs # <<>> /\ msgs[1].type = "human"
\* a chat interface rendered with an empty history first adds the greeting:
\* the history then starts with it, and a query is dispatched (and its
\* human turn appended) only with a history that is not empty
GreetingFirst ==
    /\ run'.greeted => messages' # <<>> /\ messages'[1] = AITurn(Assistant)
    /\ run'.rag.issued => run'.rag.before # <<>>

\* C15, as stated: after every run a non-empty history starts with an AI
\* turn, and a chat interface rendered with an empty history adds the
\* greeting before any human turn.
C15_FirstTurnIsAI ==
    [][/\ messages' # <<>> => messages'[1].type = "ai"
       /\ GreetingFirst]_vars

\* C15, amended: a history starts with a human turn only if it did so
\* before the run, or if the run imported a transcript whose first entry
\* is a human turn; and a chat interface rendered with an empty history
\* adds the greeting before any human turn.
C15_FirstTurnIsAIUnlessImported ==
    [][/\ HumanFirst(messages')
            => \/ HumanFirst(messages) /\ messages'[1] = messages[1]
               \/ /\ "import_toast" \in run'.notices
                  /\ HumanFirst(Imported(uploaded_chat'))
                  /\ StartsWith(messages', Imported(uploaded_chat'))
       /\ GreetingFirst]_vars

\* a run greeted an empty history and then appended a question and its
\* answer behind the greeting
C15_Witness ==
    /\ run.greeted
    /\ run.rag.issued
    /\ Len(messages) = 3
    /\ messages[1] = AITurn(Assistant)
    /\ messages[2].type = "human"

(***************************************************************************)
(* One tool-client session, step by step: the script thread of a user      *)
(* session submits each call to the background loop and waits for it       *)
(* (app.py 196-203); the loop sends the request on the session and the     *)
(* server answers. The runs are those of the ingest form: the table list   *)
(* of app.py 411, then the submission handler of 596-735.                  *)
(***************************************************************************)
MaxSubmissions == 3     \* the user presses the submit button at most this often

Request(id, name) == [id |-> id, name |-> name]
\* the future of a scheduled coroutine is done once its request is answered
FutureDone(l, id) == \E i \in 1..Len(l.results) : l.results[i].id = id
StatusOf(l, id) ==
    IF FutureDone(l, id)
    THEN (CHOOSE r \in SeqRange(l.results) : r.id = id).status
    ELSE "error"
future_result_NoWait(l, id) == TRUE
\* .result() of app.py 148, 174, 203: the caller goes on when the future is done
future_result(l, id) == FutureDone(l, id)
IngestGuard_Open(v) == TRUE
\* app.py 599: if "vector" not in st.session_state
IngestGuard(v) == ~v

\* asyncio.run_coroutine_threadsafe(_invoke(), _mcp_loop) at a call site
Schedule(site, name) ==
    LET id == Len(script.made) + 1 IN
    /\ script' = [script EXCEPT !.pc = "blocked", !.site = site, !.waits = id,
                                !.made = Append(@, id), !.issued = Append(@, name)]
    /\ loop' = [loop EXCEPT !.queue = Append(@, Request(id, name))]
    /\ UNCHANGED <<appvars, probe, ret>>

\* the user presses the submit button of the form (app.py 596); the run it
\* asks for waits until the script thread is free
Press ==
    /\ script.presses < MaxSubmissions
    /\ script' = [script EXCEPT !.pending = "submit", !.presses = @ + 1]
    /\ UNCHANGED <<appvars, probe, ret, loop>>
\* the selection changes: the on_change callback of app.py 448, 477, 507
\* drops the flag and a run is due
ResetVector ==
    /\ script.pc = "idle" /\ script.vector
    /\ script' = [script EXCEPT !.vector = reset_vector_store(@), !.pending =
                                   IF @ = "none" THEN "rerun" ELSE @]
    /\ UNCHANGED <<appvars, probe, ret, loop>>
\* a script run starts
StartRun ==
    /\ script.pc = "idle" /\ script.pending # "none"
    /\ script' = [script EXCEPT !.pc = "tables", !.pending = "none",
                                !.submitted = (script.pending = "submit"),
                                !.vector0 = script.vector, !.issued = <<>>]
    /\ UNCHANGED <<appvars, probe, ret, loop>>
\* app.py 411
CallListTables ==
    /\ script.pc = "tables"
    /\ Schedule("tables", "snowflake_list_tables")
\* app.py 597-599, 709
CallCreateVectorStore ==
    /\ script.pc = "form" /\ script.submitted /\ IngestGuard(script.vector)
    /\ Schedule("form", "snowflake_create_vector_store")
\* the handler is not entered, or its guard is closed: the run ends
EndRun ==
    /\ script.pc = "form" /\ ~(script.submitted /\ IngestGuard(script.vector))
    /\ script' = [script EXCEPT !.pc = "idle"]
    /\ UNCHANGED <<appvars, probe, ret, loop>>
\* the loop runs the coroutine: await _mcp_client.session.call_tool (199)
LoopSend ==
    /\ loop.queue # <<>>
    /\ loop' = [loop EXCEPT !.queue = Tail(@), !.inflight = @ \cup {Head(loop.queue)}]
    /\ UNCHANGED <<appvars, probe, ret, script>>
\* the server answers one of the requests it has
ServerAnswer ==
    /\ \E r \in loop.inflight, status \in {"success", "error"} :
          loop' = [loop EXCEPT !.inflight = @ \ {r},
                      !.results = Append(@, [id |-> r.id, name |-> r.name,
                                             status |-> status])]
    /\ UNCHANGED <<appvars, probe, ret, script>>
\* .result() returns and the call site goes on: after the table list to the
\* form, after the ingest to the flag and st.rerun() (720-733) or to the
\* error (735)
Resume ==
    /\ script.pc = "blocked" /\ future_result(loop, script.waits)
    /\ script' =
          IF script.site = "tables" THEN [script EXCEPT !.pc = "form"]
          ELSE IF StatusOf(loop, script.waits) = "success"
          THEN [script EXCEPT !.pc = "idle", !.vector = TRUE,
                              !.pending = IF @ = "none" THEN "rerun" ELSE @]
          ELSE [script EXCEPT !.pc = "idle"]
    /\ UNCHANGED <<appvars, probe, ret, loop>>

NextLoop ==
    \/ Press
    \/ ResetVector
    \/ StartRun
    \/ CallListTables
    \/ CallCreateVectorStore
    \/ EndRun
    \/ LoopSend
    \/ ServerAnswer
    \/ Resume
SpecLoop == Init /\ [][NextLoop]_vars

\* the requests of the session that are scheduled or sent and not answered
Outstanding == SeqRange(loop.queue) \cup loop.inflight
\* C25: on the session at most one request is scheduled or in flight at any
\* time, and the calls the script issued one after the other are answered
\* in the order in which it issued them.
C25_OneRequestInFlight ==
    /\ Cardinality(Outstanding) <= 1
    /\ \A i \in 1..Len(loop.results) : loop.results[i].id = script.made[i]
C25_Witness ==
    /\ Len(loop.results) >= 2
    /\ loop.inflight # {}

C24_WitnessFlagSet ==
    script.vector0 /\ script.submitted /\ script.pc = "idle"

(***************************************************************************)
(* The ingest form and the blob store                                      *)
(***************************************************************************)
\* C21: a run that shows the ingest form gets the bucket list by the tool
\* minio_list_buckets, a run that loads documents gets the object list by
\* the tool minio_list_objects, both through the tool-client session, and
\* the script lists neither buckets nor objects with a client of its own.
C21_ListingGoesThroughTools ==
    [][/\ "form" \in rendered'.w => "minio_list_buckets" \in SeqRange(run'.calls)
       /\ run'.ingest.issued => "minio_list_objects" \in SeqRange(run'.calls)
       /\ run'.direct \cap {"list_buckets", "list_objects"} = {}]_vars

(***************************************************************************)
(* The other adapters of app.py, and the pages that call them              *)
(***************************************************************************)
\* a str a function returns
Str(text) == [t |-> "str", text |-> text]
\* s contains the words of sub, in a row ("sub in s")
Contains(s, sub) == \E i \in 1..(Len(s) + 1) : StartsWithAt(s, sub, i)

StaticImageFile == <<"Static", "image", "file">>
VariableImageFile == <<"Variable", "image", "file">>
NoParams == [image |-> Absent, code |-> Absent]

\* app.py 166-172: the request the generic adapter sends for an input
GenericRequest(input, params) ==
    IF Contains(input, StaticImageFile)
    THEN [method |-> "read_resource", target |-> <<"resource://", "Image.png">>]
    ELSE IF Contains(input, VariableImageFile)
    THEN [method |-> "read_resource",
          target |-> <<"resource://", IF params.image = Absent THEN "" ELSE params.image>>]
    ELSE [method |-> "get_prompt", target |-> input]

\* what a prompt request or a resource read gives: has: the attribute
\* ("messages", "contents") the result carries; items: its list, or no list;
\* an item is a mapping, an object with .text, or another object
DictItem(content) == [k |-> "dict", text |-> content]
TextItem(text) == [k |-> "text", text |-> text]
OtherItem == [k |-> "other", text |-> Absent]
GenericResult(has, isList, items) ==
    [k |-> "ok", exc |-> "", has |-> has, isList |-> isList, items |-> items]
GenericRaise(exc) ==
    [k |-> "raise", exc |-> exc, has |-> "none", isList |-> FALSE, items |-> <<>>]

\* app.py 162-193
call_mcp_generic(input, params, raw) ==
    IF raw.k = "raise" THEN Raised(raw.exc)      \* .result() re-raises
    ELSE IF raw.has = "messages"
    THEN IF ~raw.isList THEN Raised("TypeError")               \* None[0]
         ELSE IF raw.items # <<>> /\ raw.items[1].k = "dict"
         THEN Returned(Str(IF raw.items[1].text = Absent THEN ""
                           ELSE raw.items[1].text))
         ELSE IF raw.items = <<>> THEN Raised("IndexError")    \* msgs[0]
         ELSE IF raw.items[1].k = "text" THEN Returned(Str(raw.items[1].text))
         ELSE Returned(Str("str(first_msg)"))
    ELSE IF raw.isList /\ raw.items # <<>>
    THEN IF raw.items[1].k = "text" THEN Returned(Str(raw.items[1].text))
         ELSE Returned(Str("str(first)"))
    ELSE Returned(Str("str(execution)"))

\* the JSON document the image_recognition tool answers with
ImageDoc(description, image_bytes) ==
    [t |-> "dict", description |-> description, image_bytes |-> image_bytes]
\* the (description, raw) pair the adapter returns
ImagePair(description, bytes) ==
    [t |-> "tuple", description |-> description, bytes |-> bytes]

\* app.py 125-159: tool_input is a str or bytes
call_mcp_tool_image_recognition(tool_input, raw) ==
    IF tool_input = "str" THEN Raised("RuntimeError")
    ELSE IF raw.k = "raise" THEN Raised(raw.exc)
    ELSE LET content == raw.content IN
    IF ~content.isList THEN Raised("TypeError")                \* None[0]
    ELSE IF content.items = <<>> THEN Raised("IndexError")
    ELSE LET text_obj == content.items[1] IN
    IF ~text_obj.hasText THEN Raised("TypeError")              \* json.loads(object)
    ELSE LET parsed == json_loads(text_obj.text) IN
    IF parsed.raised THEN parsed
    ELSE IF parsed.val.t # "dict" THEN Raised("AttributeError")   \* .get
    ELSE LET description == DictGet(parsed.val, "description", "")
             image_bytes_b64 == DictGet(parsed.val, "image_bytes", "")
         IN  IF image_bytes_b64 = "not base64" THEN Raised("binascii.Error")
             ELSE Returned(ImagePair(description, image_bytes_b64))

\* what a page has done when its run ends: the exception that ended it,
\* and what it showed
PageDone(fault, shown) ==
    [raised |-> fault # "none", exc |-> fault, shown |-> shown,
     from_call |-> fault # "none" /\ shown = "nothing"]

\* app.py 339-368: the two image pages; the answer is decoded inside a try
Page_Image(input, params, raw) ==
    LET got == call_mcp_generic(input, params, raw) IN
    IF got.raised THEN PageDone(got.exc, "nothing")
    ELSE IF got.val.text \in {"data:image/png;base64,AAAA"}
    THEN PageDone("none", "image") ELSE PageDone("none", "st.error")

\* app.py 370-378
Page_ReviewCode(code_input, raw) ==
    LET feedback == call_mcp_generic(<<"review_code">>,
                                     [NoParams EXCEPT !.code = code_input], raw) IN
    IF feedback.raised THEN PageDone(feedback.exc, "nothing")
    ELSE PageDone("none", "feedback")

\* app.py 380-396: the bytes are opened outside any try
Page_ImageRecognition(raw) ==
    LET got == call_mcp_tool_image_recognition("bytes", raw) IN
    IF got.raised THEN PageDone(got.exc, "nothing")
    ELSE IF got.val.bytes # "png" THEN PageDone("UnidentifiedImageError", "description")
    ELSE PageDone("none", "thumbnail")

(***************************************************************************)
(* The server tools (src/src/server/minio_tool.py, snowflake.py)           *)
(***************************************************************************)
\* what a helper (get_minio_client, the functions of minio_utils.py,
\* create_session and the snowrag classes) gives the tool that calls it
HelperValue(v) == [k |-> "value", exc |-> "", v |-> v]
HelperRaise(exc) == [k |-> "raise", exc |-> exc, v |-> "none"]
Truthy(v) == v \in {"object", "true", "list"}

\* json.dumps({"status": ..., "message": ...})
Envelope(status, message) == JsonText(JsonObject(status, message))

\* A mutant of the tools: the except branch raises again.
tool_except_Reraise(exc) == Raised(exc)

\* the except branch every tool ends with: str(e) is the message
tool_except(exc) == Returned(Envelope("error", exc))

MinioListTools == {"minio_list_buckets", "minio_list_objects"}
MinioBoolTools == {"minio_create_bucket", "minio_upload_files", "minio_delete_object"}
MinioTools == MinioListTools \cup MinioBoolTools

\* minio_tool.py 23-210: client is what get_minio_client() gives, helper
\* what the function of minio_utils.py gives
minio_tool(tool, client, helper) ==
    IF client.k = "raise" THEN tool_except(client.exc)
    ELSE IF ~Truthy(client.v)
    THEN Returned(Envelope("error", "Failed to connect to MinIO"))
    ELSE IF helper.k = "raise" THEN tool_except(helper.exc)
    ELSE IF tool \in MinioListTools
    THEN IF helper.v = "none" THEN Returned(Envelope("error", "Failed to list"))
         ELSE IF helper.v = "unserializable" THEN tool_except("TypeError")
         ELSE Returned(Envelope("success", Absent))
    ELSE IF Truthy(helper.v) THEN Returned(Envelope("success", "done"))
         ELSE Returned(Envelope("error", "Failed"))

SnowflakeTools ==
    {"snowflake_create_session", "snowflake_list_tables", "snowflake_drop_table",
     "snowflake_create_embeddings", "snowflake_create_vector_store",
     "snowflake_similarity_search", "snowflake_generate_completion",
     "snowflake_query_rag"}
\* the tools whose success envelope carries what the helper gave
SnowflakeDataTools ==
    {"snowflake_list_tables", "snowflake_create_embeddings",
     "snowflake_similarity_search", "snowflake_generate_completion",
     "snowflake_query_rag"}

\* snowflake.py 23-366: session is what create_session() gives, helper what
\* the work of the tool gives
snowflake_tool(tool, session, helper) ==
    IF session.k = "raise" THEN tool_except(session.exc)
    ELSE IF tool = "snowflake_create_session"
    THEN Returned(Envelope("success", "Snowflake session created successfully"))
    ELSE IF ~Truthy(session.v) THEN tool_except("AttributeError")  \* session.connection
    ELSE IF helper.k = "raise" THEN tool_except(helper.exc)
    ELSE IF tool \in SnowflakeDataTools
    THEN IF helper.v = "unserializable" THEN tool_except("TypeError")
         ELSE Returned(Envelope("success", Absent))
    ELSE Returned(Envelope("success", "done"))

(***************************************************************************)
(* The functions and adapters, one application at a time                   *)
(***************************************************************************)
(***************************************************************************)
(* The names the blob store is called with (minio_utils.py 72-202,         *)
(* app.py 572-586, 624-636)                                                *)
(***************************************************************************)
LowerChar(c) ==
    IF \E i \in 1..Len(UpperLetters) : UpperLetters[i] = c
    THEN LowerLetters[CHOOSE i \in 1..Len(UpperLetters) : UpperLetters[i] = c]
    ELSE c
\* str.lower()
Lower(s) == [i \in 1..Len(s) |-> LowerChar(s[i])]

\* A mutant of the normalization: blanks are kept.
NormalizeBucketName_LowerOnly(bucket_name) == Lower(bucket_name)

\* bucket_name.lower().replace(' ', '-') of minio_utils.py 84, 108, 165, 193
NormalizeBucketName(bucket_name) == Replace(Lower(bucket_name), <<" ">>, <<"-">>)

\* a call of the store's client
StoreCall(op, bucket, object) == [op |-> op, bucket |-> bucket, object |-> object]
NoObject == <<>>

\* minio_utils.py 72-90; exists: what bucket_exists answers
create_bucket(bucket_name, exists) ==
    LET name == NormalizeBucketName(bucket_name) IN
    <<StoreCall("bucket_exists", name, NoObject)>>
    \o (IF exists THEN <<>> ELSE <<StoreCall("make_bucket", name, NoObject)>>)

RECURSIVE BaseName(_)
\* os.path.basename
BaseName(path) ==
    IF \E i \in 1..Len(path) : path[i] = "/"
    THEN BaseName(Tail(path)) ELSE path

\* minio_utils.py 93-127, for one file
upload_files(bucket_name, file_path, exists) ==
    LET name == NormalizeBucketName(bucket_name) IN
    create_bucket(name, exists)
    \o <<StoreCall("put_object", name, BaseName(file_path))>>

\* minio_utils.py 152-174
list_objects(bucket_name) ==
    <<StoreCall("list_objects", NormalizeBucketName(bucket_name), NoObject)>>

\* minio_utils.py 177-202
delete_object_from_bucket(bucket_name, object_name) ==
    LET bucket_name_norm == NormalizeBucketName(bucket_name)
        prefix == bucket_name_norm \o <<"/">>
    IN  <<StoreCall("remove_object", bucket_name_norm,
                    IF StartsWith(object_name, prefix)
                    THEN SubSeq(object_name, Len(prefix) + 1, Len(object_name))
                    ELSE object_name)>>

\* minio_utils.py 143-146: a bucket name as list_buckets returns it
list_buckets_name(name) == NormalizeBucketName(name)
\* app.py 572-586: the bucket of the selected display name
bucket_display_to_real(display) == Replace(Lower(display), <<" ">>, <<"-">>)
\* app.py 624-636: the objects of the selected bucket are listed and the
\* object object_name of the listing is downloaded
DownloadObject(bucket, object_name) ==
    LET option_offline_resources == bucket_display_to_real(list_buckets_name(bucket))
    IN  list_objects(option_offline_resources)
        \o <<StoreCall("fget_object", option_offline_resources, object_name)>>

(***************************************************************************)
(* CustomDirectoryLoader.load (app.py 613-664), object by object and       *)
(* pattern by pattern. An object of the listing has a name, the outcome of *)
(* its download and the documents its parser gives, each with or without   *)
(* a page number.                                                          *)
(***************************************************************************)
EndsWith(s, suffix) ==
    /\ Len(suffix) <= Len(s)
    /\ SubSeq(s, Len(s) - Len(suffix) + 1, Len(s)) = suffix
\* app.py 688 and 621: glob_pattern.split('|')
patterns == <<<<"*", ".", "d", "o", "c", "x">>, <<"*", ".", "p", "d", "f">>, <<"*", ".", "c", "s", "v">>, <<"*", ".", "t", "x", "t">>>>
fnmatch_Any(name, pattern) == TRUE
\* fnmatch.fnmatch(object_name, pattern) for a pattern "*" + suffix
fnmatch(name, pattern) ==
    pattern # <<>> /\ Head(pattern) = "*" /\ EndsWith(name, Tail(pattern))
Endpoint == <<"h", ":", "9">>
\* app.py 660
minio_url(bucket_name, object_name) ==
    Endpoint \o <<"/">> \o bucket_name \o <<"/">> \o object_name
\* app.py 655-662: the documents of the parser, with page and source set
LoadedDocs(bucket_name, o) ==
    [i \in 1..Len(o.pages) |->
        [page |-> IF o.pages[i].haspage THEN o.pages[i].page ELSE 0,
         source |-> minio_url(bucket_name, o.name), n |-> i]]
\* app.py 633-664: one object under one pattern
LoadUnder(bucket_name, o, pattern) ==
    IF ~fnmatch(o.name, pattern) THEN <<>>
    ELSE IF ~o.dl THEN <<>>                                   \* 637-641
    ELSE LET local_path == BaseName(o.name) IN
         IF \/ EndsWith(local_path, <<".", "d", "o", "c", "x">>)
            \/ EndsWith(local_path, <<".", "c", "s", "v">>)
            \/ EndsWith(local_path, <<".", "p", "d", "f">>)
         THEN LoadedDocs(bucket_name, o)
         ELSE IF EndsWith(local_path, <<".", "t", "x", "t">>)
         THEN IF local_path = <<"q", "u", "e", "s", "t", "i", "o", "n", "s", ".", "t", "x", "t">>
              THEN <<>> ELSE LoadedDocs(bucket_name, o)
         ELSE <<>>
RECURSIVE LoadPatterns(_, _, _)
LoadPatterns(bucket_name, o, ps) ==
    IF ps = <<>> THEN <<>>
    ELSE LoadUnder(bucket_name, o, Head(ps)) \o LoadPatterns(bucket_name, o, Tail(ps))
RECURSIVE LoadObjects(_, _)
LoadObjects(bucket_name, object_names) ==
    IF object_names = <<>> THEN <<>>
    ELSE LoadPatterns(bucket_name, Head(object_names), patterns)
         \o LoadObjects(bucket_name, Tail(object_names))
\* app.py 613-664; no URL is given
load(bucket_name, object_names) == LoadObjects(bucket_name, object_names)

\* the store: the names of its buckets and its objects as <<bucket, key>>
StoreAfter(store, call) ==
    IF call.op = "make_bucket"
    THEN [store EXCEPT !.buckets = @ \cup {call.bucket}]
    ELSE IF call.op = "put_object"
    THEN [store EXCEPT !.objects = @ \cup {<<call.bucket, call.object>>}]
    ELSE IF call.op = "remove_object"
    THEN [store EXCEPT !.objects = @ \ {<<call.bucket, call.object>>}]
    ELSE store
RECURSIVE StoreAfterAll(_, _)
StoreAfterAll(store, calls) ==
    IF calls = <<>> THEN store
    ELSE StoreAfterAll(StoreAfter(store, Head(calls)), Tail(calls))
\* what list_objects(bucket_name) returns of a store that answers
ListedObjects(store, bucket_name) ==
    {o[2] : o \in {x \in store.objects : x[1] = NormalizeBucketName(bucket_name)}}
\* an operation done: what it returned or raised, and the store it leaves
Done(out, store) ==
    [raised |-> out.raised, exc |-> out.exc, val |-> out.val, store |-> store]
\* error_handler.py 185-208: the wrapper reports the exception of the
\* wrapped function and raises it again
error_handler(out) == IF out.raised THEN Raised(out.exc) ELSE out
\* minio_utils.py 72-90 on a store; fails: the store reports a failure
create_bucket_on(store, bucket_name, fails) ==
    IF fails THEN Done(error_handler(Raised("S3Error")), store)
    ELSE Done(error_handler(Returned(TRUE)),
              StoreAfterAll(store,
                  create_bucket(bucket_name,
                                NormalizeBucketName(bucket_name) \in store.buckets)))
\* minio_utils.py 177-202 on a store: the try catches every exception
delete_object_from_bucket_on(store, bucket_name, object_name, fails) ==
    IF fails THEN Done(error_handler(Returned(FALSE)), store)
    ELSE Done(error_handler(Returned(TRUE)),
              StoreAfterAll(store, delete_object_from_bucket(bucket_name, object_name)))
StoreOperations == {"create_bucket", "delete_object_from_bucket"}
StoreOperation(op, store, bucket, object, fails) ==
    IF op = "create_bucket" THEN create_bucket_on(store, bucket, fails)
    ELSE delete_object_from_bucket_on(store, bucket, object, fails)

BlobOperations ==
    {"create_bucket", "upload_files", "list_objects", "delete_object_from_bucket",
     "download"}
BlobOperation(op, bucket, object, exists) ==
    IF op = "create_bucket" THEN create_bucket(bucket, exists)
    ELSE IF op = "upload_files" THEN upload_files(bucket, object, exists)
    ELSE IF op = "list_objects" THEN list_objects(bucket)
    ELSE IF op = "delete_object_from_bucket"
    THEN delete_object_from_bucket(bucket, object)
    ELSE DownloadObject(bucket, object)

(***************************************************************************)
(* The text splitter of the ingestion (app.py 694-701):                    *)
(* RecursiveCharacterTextSplitter(chunk_size=1000, chunk_overlap=100).     *)
(* A document is a row of words separated by single blanks, given by the   *)
(* lengths of its words; a chunk is the part of the document from          *)
(* position first to position last.                                        *)
(***************************************************************************)
chunk_size == 1000
chunk_overlap == 100

RECURSIVE SumTo(_, _)
SumTo(ws, k) == IF k = 0 THEN 0 ELSE ws[k] + SumTo(ws, k - 1)
\* len(page_content)
DocLength(ws) == IF ws = <<>> THEN 0 ELSE SumTo(ws, Len(ws)) + Len(ws) - 1

\* the splits at a separator, which stays at the start of the split behind
\* it: word k with the blank before it. A run of splits is either the
\* words lo..hi of the document or the characters of the n positions from
\* base on.
WordStart(ws, k) == IF k = 1 THEN 1 ELSE SumTo(ws, k - 1) + k - 1
WordLen(ws, k) == IF k = 1 THEN ws[1] ELSE ws[k] + 1
Words(ws, lo, hi) ==
    [unit |-> FALSE, ws |-> ws, lo |-> lo, base |-> 0, n |-> hi - lo + 1, blank |-> FALSE]
\* blank: the first of the characters is the blank before a word
Chars(base, n, blank) ==
    [unit |-> TRUE, ws |-> <<>>, lo |-> 0, base |-> base, n |-> n, blank |-> blank]
SplitLen(sp, k) == IF sp.unit THEN 1 ELSE WordLen(sp.ws, sp.lo + k - 1)
SplitStart(sp, k) == IF sp.unit THEN sp.base + k - 1 ELSE WordStart(sp.ws, sp.lo + k - 1)

\* _join_docs: the splits i..j of a run joined and stripped; strip() takes
\* away the blank a chunk starts with
JoinDocs(sp, i, j) ==
    LET blank == IF sp.unit THEN sp.blank /\ i = 1 ELSE sp.lo + i - 1 > 1
        first == SplitStart(sp, i) + (IF blank THEN 1 ELSE 0)
        last == SplitStart(sp, j) + SplitLen(sp, j) - 1
    IN  IF last < first THEN <<>> ELSE <<[first |-> first, last |-> last]>>

\* A mutant of the merge: every split is dropped, no overlap is left.
DropMore_All(total, len) == total > 0

\* _merge_splits, the condition of the while loop: splits are dropped from
\* the front while more than the overlap is left, or the next split would
\* not fit
DropMore(total, len) ==
    total > chunk_overlap \/ (total + len > chunk_size /\ total > 0)

\* the length of the splits i..j-1 of a run: total, when current_doc holds
\* them
UpTo(sp, k) ==
    IF k = 0 THEN 0
    ELSE IF sp.unit THEN k
    ELSE SplitStart(sp, k) + SplitLen(sp, k) - SplitStart(sp, 1)
Total(sp, i, j) == UpTo(sp, j - 1) - UpTo(sp, i - 1)
Least(S) == CHOOSE x \in S : \A y \in S : x <= y

RECURSIVE MergeFrom(_, _, _, _)
\* _merge_splits with an empty separator, from the state in which
\* current_doc holds the splits i..j-1: the loop runs on to the first
\* split m that does not fit; the chunk i..m-1 is made, splits are dropped
\* from the front while DropMore says so, and m is added
MergeFrom(sp, i, j, docs) ==
    LET full == {m \in j..sp.n :
                    m > i /\ Total(sp, i, m) + SplitLen(sp, m) > chunk_size}
    IN  IF full = {}
        THEN docs \o (IF sp.n >= i THEN JoinDocs(sp, i, sp.n) ELSE <<>>)
        ELSE LET m == Least(full)
                 kept == Least({x \in i..m :
                                  ~DropMore(Total(sp, x, m), SplitLen(sp, m))})
             IN  MergeFrom(sp, kept, m + 1, docs \o JoinDocs(sp, i, m - 1))
merge_splits(sp) == MergeFrom(sp, 1, 1, <<>>)

RECURSIVE SplitWords(_, _, _)
\* _split_text at the blank: the splits shorter than chunk_size are merged
\* run by run (good: the first word of the run at hand), a longer split is
\* split again, into its characters
SplitWords(ws, good, k) ==
    LET merged == IF good < k THEN merge_splits(Words(ws, good, k - 1)) ELSE <<>>
    IN  IF k > Len(ws) THEN merged
        ELSE IF WordLen(ws, k) < chunk_size THEN SplitWords(ws, good, k + 1)
        ELSE merged \o merge_splits(Chars(WordStart(ws, k), WordLen(ws, k), k > 1))
                 \o SplitWords(ws, k + 1, k + 1)

\* split_text: the first separator the text holds is the blank, or the
\* empty separator when it holds none
split_text(ws) ==
    IF ws = <<>> THEN <<>>
    ELSE IF Len(ws) = 1 THEN merge_splits(Chars(1, ws[1], FALSE))
    ELSE SplitWords(ws, 1, 1)

(***************************************************************************)
(* The transcript: its export (app.py 847-858) and its import (537-555)    *)
(***************************************************************************)
\* app.py 849-853: the mapping of a message; a message object carries more
\* attributes than type and content, and they are exported too
serialize_message(msg) ==
    [type |-> msg.type, content |-> msg.content,
     more |-> {"additional_kwargs", "response_metadata", "name", "id"}]

\* json.dumps of a str: the characters JSON escapes
JsonEscapeChar_Raw(c) == <<c>>
JsonEscapeChar(c) ==
    IF c = "\"" THEN <<"\\", "\"">>
    ELSE IF c = "\\" THEN <<"\\", "\\">>
    ELSE IF c = NL THEN <<"\\", "n">>
    ELSE <<c>>
RECURSIVE JsonEscape(_)
JsonEscape(text) ==
    IF text = <<>> THEN <<>> ELSE JsonEscapeChar(Head(text)) \o JsonEscape(Tail(text))
json_dumps_str(text) == <<"\"">> \o JsonEscape(text) \o <<"\"">>

\* json.load of a JSON string, read from position i up to the closing quote,
\* which has to be the last character
NotStr == [wf |-> FALSE, val |-> <<>>]
RECURSIVE JsonUnescapeFrom(_, _)
JsonUnescapeFrom(t, i) ==
    IF i > Len(t) THEN NotStr
    ELSE IF t[i] = "\"" THEN (IF i = Len(t) THEN [wf |-> TRUE, val |-> <<>>] ELSE NotStr)
    ELSE IF t[i] = NL THEN NotStr                 \* a raw control character
    ELSE IF t[i] = "\\"
    THEN IF i + 1 > Len(t) \/ t[i + 1] \notin {"\"", "\\", "n"} THEN NotStr
         ELSE LET rest == JsonUnescapeFrom(t, i + 2)
                  c == IF t[i + 1] = "n" THEN NL ELSE t[i + 1]
              IN  IF rest.wf THEN [wf |-> TRUE, val |-> <<c>> \o rest.val] ELSE NotStr
    ELSE LET rest == JsonUnescapeFrom(t, i + 1)
         IN  IF rest.wf THEN [wf |-> TRUE, val |-> <<t[i]>> \o rest.val] ELSE NotStr
json_loads_str(t) ==
    IF t = <<>> \/ t[1] # "\"" THEN NotStr ELSE JsonUnescapeFrom(t, 2)

\* app.py 855-858: json.dumps of the serialized messages; the text of each
\* object, with its content as a JSON string
json_dumps_messages(messages_json) ==
    [i \in 1..Len(messages_json) |->
        [type |-> messages_json[i].type,
         content |-> json_dumps_str(messages_json[i].content),
         more |-> messages_json[i].more]]
\* app.py 539: json.load of the uploaded text
json_load_chat(text) ==
    IF \A i \in 1..Len(text) : json_loads_str(text[i].content).wf
    THEN ChatFile([i \in 1..Len(text) |->
                      Entry(text[i].type, json_loads_str(text[i].content).val)])
    ELSE BadFile

\* app.py 537-555: the import of an uploaded file into the history msgs
ImportChat(uploaded, msgs) ==
    IF ~uploaded.wf THEN msgs ELSE ImportEntries(uploaded.entries, <<>>).msgs

\* the exported text of a history, imported over the history before
ExportImport(history, before) ==
    LET messages_json == [i \in 1..Len(history) |-> serialize_message(history[i])]
    IN  ImportChat(json_load_chat(json_dumps_messages(messages_json)), before)

MaxHistory == 2        \* an exported history has at most this many turns
Contents == {<<>>, <<"a">>, <<"\"">>, <<"\\">>, <<NL>>, <<"\\", "n">>}
Turns == {AITurn(c) : c \in Contents} \cup {HumanTurn(c) : c \in Contents}
Histories == UNION {[1..n -> Turns] : n \in 0..MaxHistory}

MaxPieces == 3         \* a raw answer is made of at most this many pieces

SpecExample == AssistantPrefix \o <<"P", NL, " ", "c">>
Pieces ==
    {AssistantPrefix, <<"P">>, <<NL>>, <<" ">>, <<"A", "s", "s">>,
     <<"i", "s", "t", "a", "n", "t", ":", " ">>}
RECURSIVE Concat(_)
Concat(ps) == IF ps = <<>> THEN <<>> ELSE Head(ps) \o Concat(Tail(ps))
RawTexts ==
    {SpecExample} \cup
    {Concat(ps) : ps \in UNION {[1..n -> Pieces] : n \in 0..MaxPieces}}

\* the outcomes of session.call_tool as an adapter may meet them
Exceptions == {"TransportError", "McpError", "AttributeError"}
ToolRaws ==
    {RawRaise(e) : e \in Exceptions}
    \cup {RawResult(ContentNone), RawResult(ContentList(<<>>)),
          RawResult(ContentList(<<OtherContent>>)),
          RawResult(ContentList(<<TextContent(NotJson)>>))}
    \cup {TextResult(d) : d \in {DocList, JsonValue("str"), DocNoStatus, DocOk, DocError}}
ImageRaws ==
    ToolRaws \cup {TextResult(ImageDoc("a cat", "png")),
                   TextResult(ImageDoc("a cat", "text")),
                   TextResult(ImageDoc(Absent, Absent)),
                   TextResult(ImageDoc("a cat", Absent)),
                   TextResult(ImageDoc(Absent, "png")),
                   TextResult(ImageDoc("a cat", "not base64"))}
\* the outcomes of session.get_prompt and session.read_resource
GenericRaws ==
    {GenericRaise(e) : e \in Exceptions}
    \cup {GenericResult(has, isList, items) :
            has \in {"messages", "contents", "none"}, isList \in {TRUE},
            items \in {<<>>, <<DictItem("text")>>, <<DictItem(Absent)>>,
                       <<TextItem("data:image/png;base64,AAAA")>>,
                       <<TextItem("text")>>, <<OtherItem>>}}
    \cup {GenericResult(has, FALSE, <<>>) : has \in {"messages", "contents"}}
GenericInputs ==
    {StaticImageFile, VariableImageFile, <<"review_code">>,
     <<"resource://", "Image.png">>, <<"Show", "Static", "image", "file">>}
GenericParams ==
    {NoParams, [NoParams EXCEPT !.image = "Image.png"], [NoParams EXCEPT !.code = "x = 1"]}
HelperOutcomes ==
    {HelperRaise(e) : e \in {"S3Error", "ProgrammingError"}}
    \cup {HelperValue(v) : v \in {"none", "false", "true", "list", "unserializable"}}
ClientOutcomes ==
    {HelperRaise("KeyError"), HelperValue("none"), HelperValue("object")}

\* one function is applied to one input
Applied(fn, input, out) ==
    /\ probe' = [fn |-> fn, input |-> input]
    /\ ret' = out
    /\ UNCHANGED appvars
    /\ UNCHANGED <<script, loop>>

Apply_NormalizeAnswer ==
    /\ probe = NoProbe
    /\ \E raw \in RawTexts :
           Applied("NormalizeAnswer", [raw |-> raw], Returned(Str(NormalizeAnswer(raw))))
Apply_call_snowflake_mcp_tool ==
    /\ probe = NoProbe
    /\ \E tool_name \in SnowflakeTools, raw \in ToolRaws :
           Applied("call_snowflake_mcp_tool", [tool_name |-> tool_name, raw |-> raw],
                   call_snowflake_mcp_tool(tool_name, raw))
Apply_call_mcp_generic ==
    /\ probe = NoProbe
    /\ \E input \in GenericInputs, params \in GenericParams, raw \in GenericRaws :
           Applied("call_mcp_generic",
                   [name |-> input, params |-> params, raw |-> raw,
                    request |-> GenericRequest(input, params)],
                   call_mcp_generic(input, params, raw))
Apply_call_mcp_tool_image_recognition ==
    /\ probe = NoProbe
    /\ \E tool_input \in {"str", "bytes"}, raw \in ImageRaws :
           Applied("call_mcp_tool_image_recognition",
                   [tool_input |-> tool_input, raw |-> raw],
                   call_mcp_tool_image_recognition(tool_input, raw))
Apply_Page_Image ==
    /\ probe = NoProbe
    /\ \E input \in {StaticImageFile, VariableImageFile}, raw \in GenericRaws :
           Applied("Page_Image", [name |-> input, raw |-> raw],
                   Page_Image(input, [NoParams EXCEPT !.image = "Image.png"], raw))
Apply_Page_ReviewCode ==
    /\ probe = NoProbe
    /\ \E raw \in GenericRaws :
           Applied("Page_ReviewCode", [raw |-> raw], Page_ReviewCode("x = 1", raw))
Apply_Page_ImageRecognition ==
    /\ probe = NoProbe
    /\ \E raw \in ImageRaws :
           Applied("Page_ImageRecognition", [raw |-> raw], Page_ImageRecognition(raw))
Apply_minio_tool ==
    /\ probe = NoProbe
    /\ \E tool \in MinioTools, client \in ClientOutcomes, helper \in HelperOutcomes :
           Applied("minio_tool", [tool |-> tool, client |-> client, helper |-> helper],
                   minio_tool(tool, client, helper))
Apply_snowflake_tool ==
    /\ probe = NoProbe
    /\ \E tool \in SnowflakeTools, session \in ClientOutcomes, helper \in HelperOutcomes :
           Applied("snowflake_tool", [tool |-> tool, client |-> session, helper |-> helper],
                   snowflake_tool(tool, session, helper))
\* the texts typed into "Tabellenname": up to MaxPieces pieces in a row
NamePieces ==
    {<<"t", "e", "s", "t">>, <<"f", "o", "o">>, <<"_">>, <<" ">>, LANGCHAIN_,
     <<"l", "a", "n", "g", "c", "h", "a", "i", "n", "_">>, <<"L", "A", "N", "G">>,
     <<"c", "h", "a", "i", "n", "_">>}
NameTexts == {Concat(ps) : ps \in UNION {[1..n -> NamePieces] : n \in 0..MaxPieces}}

\* the name is normalized, and the result normalized once more
Apply_NormalizeTableName ==
    /\ probe = NoProbe
    /\ \E text \in NameTexts :
           Applied("NormalizeTableName", [text |-> text],
                   [raised |-> FALSE, exc |-> "",
                    val |-> Str(NormalizeTableName(text)),
                    again |-> Str(NormalizeTableName(NormalizeTableName(text)))])
\* the bucket names a caller passes, and the object names and paths
BucketPieces == {<<"M", "y">>, <<" ">>, <<"d", "o", "c", "s">>, <<"-">>}
BucketTexts == {Concat(ps) : ps \in UNION {[1..n -> BucketPieces] : n \in 1..MaxPieces}}
ObjectTexts ==
    {<<"a", ".", "t", "x", "t">>, <<"A", " ", "b", ".", "P", "D", "F">>,
     <<"d", "o", "c", "s", "/", "a", ".", "t", "x", "t">>,
     <<"t", "m", "p", "/", "A", " ", "b", ".", "P", "D", "F">>}

Apply_BlobOperation ==
    /\ probe = NoProbe
    /\ \E op \in BlobOperations, bucket \in BucketTexts, object \in ObjectTexts,
          exists \in BOOLEAN :
           Applied("BlobOperation",
                   [op |-> op, bucket |-> bucket, object |-> object, exists |-> exists],
                   Returned(BlobOperation(op, bucket, object, exists)))
\* stores of one bucket, "docs", and the names it is called by
StoreBucket == <<"d", "o", "c", "s">>
StoreBucketNames == {StoreBucket, <<"D", "o", "c", "s">>, <<"M", "y", " ", "d">>}
Stores ==
    {[buckets |-> {}, objects |-> {}]}
    \cup {[buckets |-> {StoreBucket}, objects |-> {<<StoreBucket, o>> : o \in os}] :
             os \in SUBSET ObjectTexts}
Apply_StoreOperation ==
    /\ probe = NoProbe
    /\ \E op \in StoreOperations, store \in Stores, bucket \in StoreBucketNames,
          object \in ObjectTexts, fails \in BOOLEAN :
           Applied("StoreOperation",
                   [op |-> op, store |-> store, bucket |-> bucket, object |-> object,
                    fails |-> fails],
                   LET once == StoreOperation(op, store, bucket, object, fails)
                   IN  [raised |-> once.raised, exc |-> once.exc, val |-> once.val,
                        store |-> once.store,
                        again |-> StoreOperation(op, once.store, bucket, object,
                                                 fails).store])
\* responses of snowflake_query_rag with status success: with and without
\* 'answer', with context items with and without 'content'
BareItem == [metadata |-> "m"]
QueryResponses ==
    {[JsonObject("success", Absent) EXCEPT !.answer = a, !.context = c] :
        a \in {NoAnswer, SomeAnswer(RawAnswer1)},
        c \in {<<>>, <<ContextItem("chunk")>>, <<BareItem>>,
                <<ContextItem("chunk"), BareItem>>}}
Apply_StoredResponse ==
    /\ probe = NoProbe
    /\ \E rag_response \in QueryResponses :
           Applied("StoredResponse", [rag_response |-> rag_response],
                   Returned(StoredResponse(rag_response)))
\* listings of up to MaxObjects objects of the bucket "docs"
MaxObjects == 2
LoaderNames ==
    {<<"a", ".", "t", "x", "t">>, <<"b", ".", "p", "d", "f">>, <<"c", ".", "P", "D", "F">>, <<"d", ".", "m", "d">>,
     <<"q", "u", "e", "s", "t", "i", "o", "n", "s", ".", "t", "x", "t">>, <<"t", "/", "q", "u", "e", "s", "t", "i", "o", "n", "s", ".", "t", "x", "t">>, <<"e", ".", "c", "s", "v">>}
ParserPages ==
    {<<>>, <<[haspage |-> FALSE, page |-> 0]>>,
     <<[haspage |-> TRUE, page |-> 0], [haspage |-> TRUE, page |-> 1]>>}
LoaderObjects ==
    {[name |-> n, dl |-> d, pages |-> p] :
        n \in LoaderNames, d \in BOOLEAN, p \in ParserPages}
Listings ==
    {l \in UNION {[1..k -> LoaderObjects] : k \in 1..MaxObjects} :
        \A i, j \in 1..Len(l) : i # j => l[i].name # l[j].name}
Apply_load ==
    /\ probe = NoProbe
    /\ \E object_names \in Listings :
           Applied("load", [bucket |-> StoreBucket, objects |-> object_names],
                   Returned(load(StoreBucket, object_names)))
\* documents of up to MaxPieces words
WordLengths == {50, 100, 101, 600, 1000, 1900}
Documents == UNION {[1..n -> WordLengths] : n \in 0..MaxPieces}

Apply_split_text ==
    /\ probe = NoProbe
    /\ \E ws \in Documents :
           Applied("split_text", [ws |-> ws, L |-> DocLength(ws)],
                   Returned(split_text(ws)))
Apply_ExportImport ==
    /\ probe = NoProbe
    /\ \E history \in Histories, before \in {<<>>, <<AITurn(Assistant)>>} :
           Applied("ExportImport", [history |-> history, before |-> before],
                   Returned(ExportImport(history, before)))

NextFn ==
    \/ Apply_StoredResponse
    \/ Apply_load
    \/ Apply_StoreOperation
    \/ Apply_ExportImport
    \/ Apply_split_text
    \/ Apply_BlobOperation
    \/ Apply_NormalizeTableName
    \/ Apply_NormalizeAnswer
    \/ Apply_call_snowflake_mcp_tool
    \/ Apply_call_mcp_generic
    \/ Apply_call_mcp_tool_image_recognition
    \/ Apply_Page_Image
    \/ Apply_Page_ReviewCode
    \/ Apply_Page_ImageRecognition
    \/ Apply_minio_tool
    \/ Apply_snowflake_tool

SpecFn == Init /\ [][NextFn]_vars

(***************************************************************************)
(* Properties of the functions, the adapters and the server tools          *)
(***************************************************************************)
\* C1, as stated: for every tool name and every remote outcome,
\* call_snowflake_mcp_tool returns a mapping that holds a "status" key, and
\* never raises.
C1_AlwaysMappingWithStatus ==
    probe.fn = "call_snowflake_mcp_tool" =>
        /\ ~ret.raised
        /\ ret.val.t = "dict"
        /\ ret.val.status # Absent

\* the answer as C6 states it: a leading "Assistant: " removed, every
\* newline replaced by a space, every other character kept
AsClaimed(raw) ==
    LET body == IF StartsWithAt(raw, AssistantPrefix, 1)
                THEN SubSeq(raw, Len(AssistantPrefix) + 1, Len(raw)) ELSE raw
    IN  [i \in 1..Len(body) |-> IF body[i] = NL THEN " " ELSE body[i]]

\* position j of s lies in an occurrence of "Assistant: "
InPrefix(s, j) ==
    \E i \in 1..j : StartsWithAt(s, AssistantPrefix, i) /\ j < i + Len(AssistantPrefix)
\* the answer as the code gives it: the characters outside every
\* occurrence of "Assistant: ", newlines as spaces, from the first
\* character that is no whitespace on
AsAmended(raw) ==
    LET idx == SelectSeq([j \in 1..Len(raw) |-> j], LAMBDA j : ~InPrefix(raw, j))
        body == [i \in 1..Len(idx) |-> IF raw[idx[i]] = NL THEN " " ELSE raw[idx[i]]]
        blank == {i \in 1..Len(body) : \A k \in 1..i : body[k] \in Whitespace}
    IN  SubSeq(body, Cardinality(blank) + 1, Len(body))

\* C6, as stated: the stored answer is the raw answer with a leading
\* "Assistant: " removed and every newline replaced by one space, and is
\* otherwise the raw answer character for character.
C6_PrefixOnlyNormalization ==
    probe.fn = "NormalizeAnswer" => ret.val.text = AsClaimed(probe.input.raw)

\* What the code stores instead: the raw answer with every occurrence of
\* "Assistant: " removed, every newline replaced by one space and the
\* leading whitespace of the result removed; "Assistant: P\n c" is stored
\* as "P  c".
C6_Normalization ==
    probe.fn = "NormalizeAnswer" =>
        /\ ret.val.text = AsAmended(probe.input.raw)
        /\ probe.input.raw = SpecExample => ret.val.text = <<"P", " ", " ", "c">>

\* an answer with leading whitespace and an "Assistant: " that is no prefix
C6_Witness ==
    /\ probe.fn = "NormalizeAnswer"
    /\ probe.input.raw = <<" ", "P">> \o AssistantPrefix
    /\ ret.val.text = <<"P">>

\* C9: every server tool returns, on every path, the text of one JSON
\* object whose status is success or error and which carries a message
\* when the status is error; no exception escapes.
C9_ToolsReturnEnvelope ==
    probe.fn \in {"minio_tool", "snowflake_tool"} =>
        /\ ~ret.raised
        /\ ret.val.wf /\ ret.val.doc.t = "dict"
        /\ ret.val.doc.status \in {"success", "error"}
        /\ ret.val.doc.status = "error" => ret.val.doc.message # Absent

\* a helper raised inside a tool, and the tool answered with the error
\* envelope that carries the text of the exception
C9_Witness ==
    /\ probe.fn = "minio_tool" /\ probe.input.tool = "minio_create_bucket"
    /\ probe.input.helper = HelperRaise("S3Error")
    /\ ~ret.raised /\ ret.val.doc.status = "error"
    /\ ret.val.doc.message = "S3Error"

\* C10, as stated: a failure of a call made through call_mcp_generic,
\* call_mcp_tool_image_recognition (given image bytes) or
\* call_snowflake_mcp_tool never leaves the adapter as an exception, and no
\* page ends with an exception that came out of its call.
C10_CallFailuresAreCaught ==
    /\ probe.fn \in {"call_mcp_generic", "call_snowflake_mcp_tool"} => ~ret.raised
    /\ (probe.fn = "call_mcp_tool_image_recognition"
            /\ probe.input.tool_input = "bytes") => ~ret.raised
    /\ probe.fn \in {"Page_Image", "Page_ReviewCode", "Page_ImageRecognition"} =>
            ~(ret.raised /\ ret.from_call)


\* C14: exporting a history of human and AI turns and importing the text
\* gives the same turns (type and content) in the same order, whatever the
\* history was before the import.
C14_ExportImportRoundTrip ==
    probe.fn = "ExportImport" => ~ret.raised /\ ret.val = probe.input.history

\* two turns whose contents need escaping, imported over a greeting
C14_Witness ==
    /\ probe.fn = "ExportImport"
    /\ probe.input.history = <<AITurn(<<"\\", "n">>), HumanTurn(<<"\"">>)>>
    /\ probe.input.before = <<AITurn(Assistant)>>
    /\ ret.val = probe.input.history


\* C16: the new-table name is the uppercase input, prefixed with
\* "LANGCHAIN_" unless the uppercase input already starts with it, and
\* "LANGCHAIN_TEST" for the empty input; so "test" gives "LANGCHAIN_TEST",
\* "LANGCHAIN_FOO" stays, and normalizing a normalized name changes nothing.
C16_TableNameNormalization ==
    probe.fn = "NormalizeTableName" =>
        LET text == probe.input.text
            up == Upper(text)
            out == ret.val.text
        IN  /\ text = <<>> => out = LANGCHAIN_TEST
            /\ text # <<>> /\ StartsWith(up, LANGCHAIN_) => out = up
            /\ text # <<>> /\ ~StartsWith(up, LANGCHAIN_) => out = LANGCHAIN_ \o up
            /\ text = <<"t", "e", "s", "t">> => out = LANGCHAIN_TEST
            /\ text = LANGCHAIN_ \o <<"F", "O", "O">> => out = text
            /\ ret.again.text = out

\* a lowercase name that already carries the prefix: it is uppercased and
\* gets no second prefix, and normalizing it again changes nothing
C16_Witness ==
    /\ probe.fn = "NormalizeTableName"
    /\ probe.input.text = <<"l", "a", "n", "g", "c", "h", "a", "i", "n", "_", "f", "o", "o">>
    /\ ret.val.text = LANGCHAIN_ \o <<"F", "O", "O">>
    /\ ret.again = ret.val


\* C17: for every result the request gives, whatever its shape,
\* call_mcp_generic returns a string and does not raise: the text of the
\* first message of a message list, the text of the first item of a content
\* list, and the stringified result for anything else, an empty message
\* list or content list included.
C17_GenericReturnsString ==
    probe.fn = "call_mcp_generic" /\ probe.input.raw.k = "ok" =>
        LET raw == probe.input.raw
            filled == raw.isList /\ raw.items # <<>>
        IN  /\ ~ret.raised
            /\ ret.val.t = "str"
            /\ filled /\ raw.items[1].k = "text" => ret.val.text = raw.items[1].text
            /\ ~filled => ret.val.text = "str(execution)"


\* the name carries a URI scheme
HasScheme(input) == input # <<>> /\ input[1] = "resource://"

\* C18: call_mcp_generic issues read_resource on its name argument when the
\* argument carries a URI scheme, and get_prompt with that name when the
\* argument is a plain name.
C18_RequestShapeByForm ==
    probe.fn = "call_mcp_generic" =>
        LET name == probe.input.name
            request == probe.input.request
        IN  /\ HasScheme(name)
                => request = [method |-> "read_resource", target |-> name]
            /\ ~HasScheme(name)
                => request = [method |-> "get_prompt", target |-> name]


\* a text is the lowercase of another with every blank made a hyphen
LoweredAndHyphened(out, text) ==
    /\ Len(out) = Len(text)
    /\ \A i \in 1..Len(text) :
          out[i] = IF text[i] = " " THEN "-" ELSE LowerChar(text[i])
StoreCalls == ret.val

\* C19, as stated: every call of a blob-store operation reaches the store
\* with a bucket name and an object name that are lowercase with hyphens
\* for blanks, and normalizing a normalized name changes nothing.
C19_BucketAndObjectNamesNormalized ==
    probe.fn = "BlobOperation" =>
        \A i \in 1..Len(StoreCalls) :
            /\ LoweredAndHyphened(StoreCalls[i].bucket, probe.input.bucket)
            /\ LoweredAndHyphened(StoreCalls[i].object, StoreCalls[i].object)
            /\ NormalizeBucketName(StoreCalls[i].bucket) = StoreCalls[i].bucket

\* the object name an operation is meant to use: the base name of the
\* uploaded path, the name without a leading "<bucket>/" for a delete, the
\* listed name for a download
ObjectGiven(op, bucket, object) ==
    IF op = "upload_files" THEN BaseName(object)
    ELSE IF op = "delete_object_from_bucket"
            /\ StartsWith(object, StoreCalls[1].bucket \o <<"/">>)
    THEN SubSeq(object, Len(StoreCalls[1].bucket) + 2, Len(object))
    ELSE object

\* C19, amended: every call reaches the store with a bucket name that is
\* lowercase with hyphens for blanks, and normalizing it again changes
\* nothing; an object name reaches the store with its case and blanks as
\* the caller gave them.
C19_BucketNamesNormalized ==
    probe.fn = "BlobOperation" =>
        \A i \in 1..Len(StoreCalls) :
            /\ LoweredAndHyphened(StoreCalls[i].bucket, probe.input.bucket)
            /\ NormalizeBucketName(StoreCalls[i].bucket) = StoreCalls[i].bucket
            /\ StoreCalls[i].object # NoObject
                 => StoreCalls[i].object
                      = ObjectGiven(probe.input.op, probe.input.bucket, probe.input.object)

\* an upload into "My docs": the bucket is looked up, made and written to
\* as "my-docs", the object keeps its name "A b.PDF"
C19_Witness ==
    /\ probe.fn = "BlobOperation"
    /\ probe.input.op = "upload_files"
    /\ probe.input.bucket = <<"M", "y", " ", "d", "o", "c", "s">>
    /\ Len(StoreCalls) = 3
    /\ StoreCalls[3] = StoreCall("put_object", <<"m", "y", "-", "d", "o", "c", "s">>,
                                 <<"A", " ", "b", ".", "P", "D", "F">>)


\* ceil(a / b) for b > 0
CeilDiv(a, b) == -((-a) \div b)
Chunks == ret.val
ChunkLength(c) == c.last - c.first + 1
\* the characters two chunks share (none when the number is not positive)
Overlap(c, d) == c.last - d.first + 1

\* C20, as stated: a document of length L gives ceil((L-100)/900) chunks,
\* for every L, and exactly 1 chunk for every L <= 1000; every chunk has at
\* most 1000 characters and consecutive chunks overlap by 100.
C20_ChunkCountFormula ==
    probe.fn = "split_text" =>
        LET L == probe.input.L IN
        /\ Len(Chunks) = CeilDiv(L - chunk_overlap, chunk_size - chunk_overlap)
        /\ L <= chunk_size => Len(Chunks) = 1
        /\ \A i \in 1..Len(Chunks) : ChunkLength(Chunks[i]) <= chunk_size
        /\ \A i \in 1..(Len(Chunks) - 1) :
              Overlap(Chunks[i], Chunks[i + 1]) = chunk_overlap

\* C20, amended: a document of L >= 1 characters without whitespace gives
\* ceil((L-100)/900) chunks for every L > 100 and exactly 1 chunk for every
\* L <= 1000, and consecutive chunks overlap by 100; a document of words
\* separated by blanks gives chunks of at most 1000 characters that
\* overlap by at most 100, and 1 chunk when 1 <= L <= 1000.
C20_ChunksOfUnbrokenText ==
    probe.fn = "split_text" =>
        LET L == probe.input.L
            unbroken == Len(probe.input.ws) = 1
        IN
        /\ unbroken /\ L > chunk_overlap
              => Len(Chunks) = CeilDiv(L - chunk_overlap, chunk_size - chunk_overlap)
        /\ L >= 1 /\ L <= chunk_size => Len(Chunks) = 1
        /\ \A i \in 1..Len(Chunks) : ChunkLength(Chunks[i]) <= chunk_size
        /\ \A i \in 1..(Len(Chunks) - 1) :
              /\ Overlap(Chunks[i], Chunks[i + 1]) <= chunk_overlap
              /\ unbroken => Overlap(Chunks[i], Chunks[i + 1]) = chunk_overlap

\* an unbroken text of 1900 characters: two chunks of 1000 characters that
\* share 100
C20_Witness ==
    /\ probe.fn = "split_text"
    /\ probe.input.ws = <<1900>>
    /\ Chunks = <<[first |-> 1, last |-> 1000], [first |-> 901, last |-> 1900]>>

\* C22: create_bucket returns True when the bucket was created or already
\* existed, creating an existing bucket changes nothing in the store and a
\* second call leaves the store as the first did, and when the store reports
\* a failure create_bucket returns False and raises nothing.
C22_CreateBucketReturnsBool ==
    probe.fn = "StoreOperation" /\ probe.input.op = "create_bucket" =>
        LET name == NormalizeBucketName(probe.input.bucket) IN
        /\ ~ret.raised
        /\ probe.input.fails => ret.val = FALSE /\ ret.store = probe.input.store
        /\ ~probe.input.fails =>
              /\ ret.val = TRUE
              /\ ret.store.buckets = probe.input.store.buckets \cup {name}
              /\ ret.store.objects = probe.input.store.objects
              /\ ret.again = ret.store

\* C30: for an object key o that list_objects(b) returns,
\* delete_object_from_bucket(b, o) returns True and leaves the store with
\* exactly its objects other than o of b, also when o begins with the
\* normalized bucket name and "/"; when the store reports a failure it
\* returns False and raises nothing.
C30_DeleteRemovesExactlyTheObject ==
    (/\ probe.fn = "StoreOperation" /\ probe.input.op = "delete_object_from_bucket"
     /\ probe.input.object \in ListedObjects(probe.input.store, probe.input.bucket))
    =>  /\ ~ret.raised
        /\ probe.input.fails => ret.val = FALSE
        /\ ~probe.input.fails =>
              /\ ret.val = TRUE
              /\ ret.store.buckets = probe.input.store.buckets
              /\ ret.store.objects =
                    probe.input.store.objects
                    \ {<<NormalizeBucketName(probe.input.bucket), probe.input.object>>}

\* C23: no run that renders the chat interface reads an undefined value:
\* neither the greeting (app.py 749) nor the dispatch of a question (769)
\* raises NameError, whatever the selection mode and the 'vector' flag; and
\* a question asked in create-new-table mode with the flag set is dispatched
\* to snowflake_query_rag with the new table name as target.
C23_ChatInterfaceReadsDefined ==
    /\ run.fault \notin {"NameError:749", "NameError:769"}
    /\ (run.rag.issued /\ selected_table = SelNew) => run.rag.table = option_table

\* C26: a run that starts with a history of at least one turn does not
\* offer the transcript import and applies no uploaded transcript: the
\* uploader is not rendered, no import is reported, and the history it
\* starts with is kept as the beginning of the history it ends with.
C26_ImportOnlyIntoEmptyHistory ==
    [][messages # <<>> =>
          /\ "uploader" \notin rendered'.w
          /\ run'.notices \cap {"import_toast", "import_error"} = {}
          /\ StartsWith(messages', messages)]_vars

\* the documents of the result that come from the object named name
DocsFrom(docs, bucket_name, name) ==
    SelectSeq(docs, LAMBDA d : d.source = minio_url(bucket_name, name))
LoaderSuffixes == {<<".", "d", "o", "c", "x">>, <<".", "c", "s", "v">>, <<".", "p", "d", "f">>, <<".", "t", "x", "t">>}
\* C27: load gives the documents of a listed object exactly once (each
\* document of its parser once, in order) if its name ends in .docx, .csv,
\* .pdf or .txt, its base name is not questions.txt and its download
\* succeeded, and gives nothing of the object otherwise, whatever happens
\* to the other objects; every document has a page, 0 when the parser gave
\* none, and the source endpoint/bucket/object-name.
C27_LoadYieldsEachObjectOnce ==
    probe.fn = "load" =>
        /\ \A i \in 1..Len(probe.input.objects) :
              LET o == probe.input.objects[i]
                  mine == DocsFrom(ret.val, probe.input.bucket, o.name)
              IN  IF /\ \E x \in LoaderSuffixes : EndsWith(o.name, x)
                     /\ BaseName(o.name) # <<"q", "u", "e", "s", "t", "i", "o", "n", "s", ".", "t", "x", "t">>
                     /\ o.dl
                  THEN /\ Len(mine) = Len(o.pages)
                       /\ \A k \in 1..Len(mine) :
                             /\ mine[k].n = k
                             /\ mine[k].page = IF o.pages[k].haspage
                                               THEN o.pages[k].page ELSE 0
                  ELSE mine = <<>>
        /\ \A k \in 1..Len(ret.val) :
              \E i \in 1..Len(probe.input.objects) :
                  ret.val[k].source = Endpoint \o <<"/">> \o probe.input.bucket
                                      \o <<"/">> \o probe.input.objects[i].name
\* a listing of a loaded pdf of two pages and an object whose download failed
C27_Witness ==
    /\ probe.fn = "load" /\ Len(probe.input.objects) = 2
    /\ Len(ret.val) = 2 /\ ret.val[2].page = 1
    /\ \E i \in 1..2 : probe.input.objects[i].name = <<"a", ".", "t", "x", "t">>
                         /\ ~probe.input.objects[i].dl

\* the image_recognition answers that lack a field, and what the adapter
\* returns for them
ImageFieldsDefaulted ==
    \A d \in {"a cat", Absent}, b \in {"png", Absent} :
        (/\ probe.fn = "call_mcp_tool_image_recognition"
         /\ probe.input.tool_input = "bytes"
         /\ d = Absent \/ b = Absent
         /\ probe.input.raw = TextResult(ImageDoc(d, b)))
        => ret = Returned(ImagePair(IF d = Absent THEN "" ELSE d,
                                    IF b = Absent THEN "" ELSE b))
ContextDefaulted ==
    probe.fn = "StoredResponse" =>
        /\ ~ret.raised
        /\ Len(ret.val.context) = Len(probe.input.rag_response.context)
        /\ \A i \in 1..Len(ret.val.context) :
              "content" \notin DOMAIN probe.input.rag_response.context[i]
                  => ret.val.context[i].page_content = ""
AnswerMissing ==
    probe.fn = "StoredResponse" /\ ~probe.input.rag_response.answer.present

\* C28, as stated: a response that lacks a field is answered with the empty
\* string and no failure: image_recognition without 'description' or
\* 'image_bytes' gives '' and empty bytes for the missing one, a successful
\* query response without 'answer' gives the empty answer, a context item
\* without 'content' gives empty content.
C28_MissingFieldsGiveEmpty ==
    /\ ImageFieldsDefaulted
    /\ ContextDefaulted
    /\ AnswerMissing => ret.val.output = <<>>

\* C28, amended: as stated for image_recognition and for the context items;
\* a successful query response without 'answer' gives the fixed answer
\* "Keine Antwort erhalten.".
C28_MissingFieldsGiveDefaults ==
    /\ ImageFieldsDefaulted
    /\ ContextDefaulted
    /\ AnswerMissing => ret.val.output = DefaultAnswer
C28_Witness ==
    /\ AnswerMissing
    /\ ret.val.output = DefaultAnswer
    /\ Len(ret.val.context) = 2 /\ ret.val.context[2].page_content = ""

\* C29: whenever the stored response is set, the history ends with a human
\* turn followed by the AI turn whose content is the output of the stored
\* response, so the context shown under the last AI turn belongs to it.
C29_ResponseBelongsToLastTurn ==
    response.set =>
        /\ Len(messages) >= 2
        /\ messages[Len(messages) - 1].type = "human"
        /\ messages[Len(messages)] = AITurn(response.output)

====
